---- MODULE Spec2Model ----
(***************************************************************************)
(* SeisCL/python/seis2D.py: the finite-difference stencils and their       *)
(* adjoints, the reversible domain operators of the 2-D elastic solver,    *)
(* the free-surface operator with its snapshot stack, the parameter        *)
(* rescaling, and the elastic2d time loop with its reverse replay.         *)
(*                                                                         *)
(* Numbers.  All arithmetic is exact.  A padded array is a function        *)
(* [0..R-1 -> [0..C-1 -> Int]] indexed like the numpy array.  The stencil  *)
(* weights 1.1382 and 0.046414 are held as the integers HC1 and HC2 in     *)
(* units of 1/Scale, so a stencil result is Scale times the code's value;  *)
(* where the code copies an array into a stencil result (the halo of the   *)
(* adjoint stencils) the copy carries the same factor Scale.               *)
(***************************************************************************)
EXTENDS Integers, Sequences, FiniteSets, TLC

\* ---------------------------------------------------------------- bounds
NZ == 2
NX == 2
MaxAmp == 2
MaxCalls == 4

\* ------------------------------------------------------ program constants
Pad == 2
Scale == 1000000
HC1 == 1138200
HC2 == 46414

VARIABLES
    pc,      \* position of the driver that calls the operators
    sa,      \* stencil check: the array a
    sb,      \* stencil check: the array b
    sop,     \* stencil check: the stencil pair applied
    sout,    \* stencil check: D(a)
    sadj,    \* stencil check: D_adj(b)
    F,       \* the Variables (data, lin, grad) the operators act on
    F0,      \* the Variables as they were before the first call
    F1,      \* the Variables as they were after the first call
    call,    \* the first call: operator and arguments
    S,       \* free surface: the states dictionary of arrays
    stack,   \* free surface: self._forward_states
    status,  \* free surface: "ok", or the exception that ended the run
    trace,   \* free surface: the calls made so far, in order
    snaps,   \* free surface: snaps[k] is S as it was before call k
    P,       \* scaling: the Variables vp, vs, rho (arrays of fractions)
    P0,      \* scaling: vp, vs, rho as they were before the first call
    P1,      \* scaling: vp, vs, rho as they were after the first call
    sc,      \* scaling: self.sc ("None" until forward records it)
    dtdx,    \* scaling: self.dtdx, a fraction
    W,       \* elastic2d: the value each wavefield holds, as the id of a term
    defs,    \* elastic2d: defs[id] is the term: operator, value replaced, values read
    signal,  \* elastic2d: src, the source signal
    tidx,    \* elastic2d: t, the time index of the loop
    step,    \* elastic2d: the next call of the loop body
    tape,    \* the operator calls recorded so far, in order
    seen,    \* seen[k] is the primal state call k of the tape started from
    saved,   \* the snapshots kept for the calls that cannot be inverted
    rk,      \* replay: the entry of the tape being unwound
    replayed, \* replay: the adjoint calls made so far, with the primal state each saw
    T,       \* taper: the Variables passed to Cerjan (cells are <<a, e>>: a * tau^e)
    T0,      \* taper: the Variables as they were before the first call
    nab,     \* taper: self.nab
    freesurf, \* taper: self.freesurf
    tlog     \* taper: the calls made so far, in order

stencilVars == <<sa, sb, sop, sout, sadj>>
opsVars == <<F, F0, F1, call>>
surfVars == <<S, stack, status, trace, snaps>>
scaleVars == <<P, P0, P1, sc, dtdx>>
tapeVars == <<W, defs, signal, tidx, step, tape, seen, saved, rk, replayed>>

taperVars == <<T, T0, nab, freesurf, tlog>>

vars == <<pc, stencilVars, opsVars, surfVars, scaleVars, tapeVars, taperVars>>

notStencilVars == <<opsVars, surfVars, scaleVars, tapeVars, taperVars>>
notOpsVars == <<stencilVars, surfVars, scaleVars, tapeVars, taperVars>>
notSurfVars == <<pc, stencilVars, opsVars, scaleVars, tapeVars, taperVars>>
notScaleVars == <<stencilVars, opsVars, surfVars, tapeVars, taperVars>>
notTapeVars == <<stencilVars, opsVars, surfVars, taperVars>>

EmptyStencil == sa = <<>> /\ sb = <<>> /\ sop = "none" /\ sout = <<>> /\ sadj = <<>>
EmptyOps == F = <<>> /\ F0 = <<>> /\ F1 = <<>> /\ call = <<>>
EmptySurf == S = <<>> /\ stack = <<>> /\ status = "ok" /\ trace = <<>> /\ snaps = <<>>
EmptyScale == P = <<>> /\ P0 = <<>> /\ P1 = <<>> /\ sc = "None" /\ dtdx = <<1, 1>>
EmptyTaper == T = <<>> /\ T0 = <<>> /\ nab = 0 /\ freesurf = FALSE /\ tlog = <<>>
EmptyTape ==
    /\ W = <<>> /\ defs = <<>> /\ signal = <<>> /\ tidx = 0 /\ step = 0
    /\ tape = <<>> /\ seen = <<>> /\ saved = <<>> /\ rk = 0 /\ replayed = <<>>

\* ---------------------------------------------------------------- arrays
NRows(var) == Cardinality(DOMAIN var)
NCols(var) == Cardinality(DOMAIN var[0])

Rows(var) == 0 .. NRows(var) - 1
Cols(var) == 0 .. NCols(var) - 1

\* var[2:-2, 2:-2]: the cells that are not halo
IsValid(var, r, c) ==
    /\ r >= Pad /\ r <= NRows(var) - Pad - 1
    /\ c >= Pad /\ c <= NCols(var) - Pad - 1

ZerosLike(var) == [r \in Rows(var) |-> [c \in Cols(var) |-> 0]]

RECURSIVE SumTo(_, _)
SumTo(f, n) == IF n < 0 THEN 0 ELSE f[n] + SumTo(f, n - 1)

\* np.sum(x * y) over two arrays of one shape
Dot(x, y) ==
    SumTo([r \in Rows(x) |-> SumTo([c \in Cols(x) |-> x[r][c] * y[r][c]], NCols(x) - 1)],
          NRows(x) - 1)

\* np.sum(x[2:-2, 2:-2] * d) for a padded x and an interior-shaped d
DotValid(x, d) ==
    SumTo([i \in Rows(d) |-> SumTo([j \in Cols(d) |-> x[i + Pad][j + Pad] * d[i][j]],
                                   NCols(d) - 1)],
          NRows(d) - 1)

HaloZero(var) ==
    \A r \in Rows(var) : \A c \in Cols(var) : IsValid(var, r, c) \/ var[r][c] = 0

\* ------------------------------------------------------------- stencils
Dpx(var) ==
    [i \in 0 .. NRows(var) - 2 * Pad - 1 |-> [j \in 0 .. NCols(var) - 2 * Pad - 1 |->
        HC1 * (var[i + 2][j + 3] - var[i + 2][j + 2])
        - HC2 * (var[i + 2][j + 4] - var[i + 2][j + 1])]]

Dmx(var) ==
    [i \in 0 .. NRows(var) - 2 * Pad - 1 |-> [j \in 0 .. NCols(var) - 2 * Pad - 1 |->
        HC1 * (var[i + 2][j + 2] - var[i + 2][j + 1])
        - HC2 * (var[i + 2][j + 3] - var[i + 2][j])]]

Dpz(var) ==
    [i \in 0 .. NRows(var) - 2 * Pad - 1 |-> [j \in 0 .. NCols(var) - 2 * Pad - 1 |->
        HC1 * (var[i + 3][j + 2] - var[i + 2][j + 2])
        - HC2 * (var[i + 4][j + 2] - var[i + 1][j + 2])]]

Dmz(var) ==
    [i \in 0 .. NRows(var) - 2 * Pad - 1 |-> [j \in 0 .. NCols(var) - 2 * Pad - 1 |->
        HC1 * (var[i + 2][j + 2] - var[i + 1][j + 2])
        - HC2 * (var[i + 3][j + 2] - var[i][j + 2])]]

\* dvar = var.copy(); dvar[2:-2, 2:-2] = 0
CopyZeroValid(var) ==
    [r \in Rows(var) |-> [c \in Cols(var) |->
        IF IsValid(var, r, c) THEN 0 ELSE Scale * var[r][c]]]

\* dvar[2+dr : -2+dr, 2+dc : -2+dc] += w * var[2:-2, 2:-2]
ScatterAdd(dvar, var, w, dr, dc) ==
    [r \in Rows(var) |-> [c \in Cols(var) |->
        IF IsValid(var, r - dr, c - dc)
        THEN dvar[r][c] + w * var[r - dr][c - dc]
        ELSE dvar[r][c]]]

Dpx_adj_bug(var) ==
    ScatterAdd(ScatterAdd(ScatterAdd(ScatterAdd(CopyZeroValid(var),
        var, HC1, 0, 1), var, -HC1, 0, 0), var, HC2, 0, 2), var, HC2, 0, -1)

Dpx_adj(var) ==
    ScatterAdd(ScatterAdd(ScatterAdd(ScatterAdd(CopyZeroValid(var),
        var, HC1, 0, 1), var, -HC1, 0, 0), var, -HC2, 0, 2), var, HC2, 0, -1)

Dmx_adj(var) ==
    ScatterAdd(ScatterAdd(ScatterAdd(ScatterAdd(CopyZeroValid(var),
        var, HC1, 0, 0), var, -HC1, 0, -1), var, -HC2, 0, 1), var, HC2, 0, -2)

Dpz_adj(var) ==
    ScatterAdd(ScatterAdd(ScatterAdd(ScatterAdd(CopyZeroValid(var),
        var, HC2, -1, 0), var, -HC1, 0, 0), var, HC1, 1, 0), var, -HC2, 2, 0)

Dmz_adj_bug(var) ==
    ScatterAdd(ScatterAdd(ScatterAdd(ScatterAdd(CopyZeroValid(var),
        var, HC2, -2, 0), var, -HC1, -1, 0), var, HC1, 0, 0), var, HC2, 1, 0)

Dmz_adj(var) ==
    ScatterAdd(ScatterAdd(ScatterAdd(ScatterAdd(CopyZeroValid(var),
        var, HC2, -2, 0), var, -HC1, -1, 0), var, HC1, 0, 0), var, -HC2, 1, 0)

\* ------------------------------------------- Variables and their arrays
\* a Variable of the tape module: three arrays of one shape
Variable(data, lin, grad) == [data |-> data, lin |-> lin, grad |-> grad]

\* arr[valid] += d, for an interior-shaped d
AddValid(arr, d) ==
    [r \in Rows(arr) |-> [c \in Cols(arr) |->
        IF IsValid(arr, r, c) THEN arr[r][c] + d[r - Pad][c - Pad] ELSE arr[r][c]]]

\* arr[valid] -= d
SubValid(arr, d) ==
    [r \in Rows(arr) |-> [c \in Cols(arr) |->
        IF IsValid(arr, r, c) THEN arr[r][c] - d[r - Pad][c - Pad] ELSE arr[r][c]]]

\* d * arr[valid], for an interior-shaped d
TimesValid(d, arr) ==
    [i \in Rows(d) |-> [j \in Cols(d) |-> d[i][j] * arr[i + Pad][j + Pad]]]

\* interior-shaped sums, differences and multiples
Plus(d, e) == [i \in Rows(d) |-> [j \in Cols(d) |-> d[i][j] + e[i][j]]]
Neg(d) == [i \in Rows(d) |-> [j \in Cols(d) |-> -d[i][j]]]
Twice(d) == [i \in Rows(d) |-> [j \in Cols(d) |-> 2 * d[i][j]]]

\* x * y for two padded arrays
Times(x, y) == [r \in Rows(x) |-> [c \in Cols(x) |-> x[r][c] * y[r][c]]]

\* x - 2.0 * y for two padded arrays
MinusTwice(x, y) == [r \in Rows(x) |-> [c \in Cols(x) |-> x[r][c] - 2 * y[r][c]]]

\* z = np.zeros_like(arr); z[valid] = arr[valid]
ValidOnly(arr) ==
    [r \in Rows(arr) |-> [c \in Cols(arr) |-> IF IsValid(arr, r, c) THEN arr[r][c] ELSE 0]]

\* ------------------------------------------------------- UpdateVelocity
UpdateVelocity_forward_bug(cv, vx, vz, sxx, szz, sxz, backpropagate) ==
    LET sxx_x == Dpx(sxx.data)
        szz_z == Dpz(szz.data)
        sxz_x == Dmx(sxz.data)
        sxz_z == Dmz(sxz.data)
    IN  IF ~backpropagate
        THEN [vx |-> [vx EXCEPT !.data = AddValid(@, TimesValid(Plus(sxx_x, sxz_z), cv.data))],
              vz |-> [vz EXCEPT !.data = AddValid(@, TimesValid(Plus(szz_z, sxz_x), cv.data))]]
        ELSE [vx |-> [vx EXCEPT !.data = SubValid(@, TimesValid(Plus(sxx_x, sxz_z), cv.data))],
              vz |-> [vz EXCEPT !.data = SubValid(@, TimesValid(Plus(szz_z, sxz_z), cv.data))]]

UpdateVelocity_forward(cv, vx, vz, sxx, szz, sxz, backpropagate) ==
    LET sxx_x == Dpx(sxx.data)
        szz_z == Dpz(szz.data)
        sxz_x == Dmx(sxz.data)
        sxz_z == Dmz(sxz.data)
    IN  IF ~backpropagate
        THEN [vx |-> [vx EXCEPT !.data = AddValid(@, TimesValid(Plus(sxx_x, sxz_z), cv.data))],
              vz |-> [vz EXCEPT !.data = AddValid(@, TimesValid(Plus(szz_z, sxz_x), cv.data))]]
        ELSE [vx |-> [vx EXCEPT !.data = SubValid(@, TimesValid(Plus(sxx_x, sxz_z), cv.data))],
              vz |-> [vz EXCEPT !.data = SubValid(@, TimesValid(Plus(szz_z, sxz_x), cv.data))]]

UpdateVelocity_linear(cv, vx, vz, sxx, szz, sxz) ==
    LET sxx_x == Dpx(sxx.lin)
        szz_z == Dpz(szz.lin)
        sxz_x == Dmx(sxz.lin)
        sxz_z == Dmz(sxz.lin)
        vxl == AddValid(vx.lin, TimesValid(Plus(sxx_x, sxz_z), cv.data))
        vzl == AddValid(vz.lin, TimesValid(Plus(szz_z, sxz_x), cv.data))
        dsxx_x == Dpx(sxx.data)
        dszz_z == Dpz(szz.data)
        dsxz_x == Dmx(sxz.data)
        dsxz_z == Dmz(sxz.data)
    IN  [vx |-> [vx EXCEPT !.lin = AddValid(vxl, TimesValid(Plus(dsxx_x, dsxz_z), cv.lin))],
         vz |-> [vz EXCEPT !.lin = AddValid(vzl, TimesValid(Plus(dszz_z, dsxz_x), cv.lin))]]

UpdateVelocity_adjoint_bug(cv, vx, vz, sxx, szz, sxz) ==
    LET cv0 == ValidOnly(cv.data)
        adj_vx_x == Neg(Dmx(Times(cv0, vx.grad)))
        adj_vx_z == Neg(Dpz(Times(cv0, vx.grad)))
        adj_vz_z == Neg(Dmz(Times(cv0, vz.grad)))
        adj_vz_x == Neg(Dmx(Times(cv0, vz.grad)))
        sxx_x == Dpx(sxx.data)
        szz_z == Dpz(szz.data)
        sxz_x == Dmx(sxz.data)
        sxz_z == Dmz(sxz.data)
        cvg == AddValid(cv.grad, TimesValid(Plus(sxx_x, sxz_z), vx.grad))
    IN  [sxx |-> [sxx EXCEPT !.grad = AddValid(@, adj_vx_x)],
         szz |-> [szz EXCEPT !.grad = AddValid(@, adj_vz_z)],
         sxz |-> [sxz EXCEPT !.grad = AddValid(@, Plus(adj_vx_z, adj_vz_x))],
         cv |-> [cv EXCEPT !.grad = AddValid(cvg, TimesValid(Plus(szz_z, sxz_x), vz.grad))]]

UpdateVelocity_adjoint(cv, vx, vz, sxx, szz, sxz) ==
    LET cv0 == ValidOnly(cv.data)
        adj_vx_x == Neg(Dmx(Times(cv0, vx.grad)))
        adj_vx_z == Neg(Dpz(Times(cv0, vx.grad)))
        adj_vz_z == Neg(Dmz(Times(cv0, vz.grad)))
        adj_vz_x == Neg(Dpx(Times(cv0, vz.grad)))
        sxx_x == Dpx(sxx.data)
        szz_z == Dpz(szz.data)
        sxz_x == Dmx(sxz.data)
        sxz_z == Dmz(sxz.data)
        cvg == AddValid(cv.grad, TimesValid(Plus(sxx_x, sxz_z), vx.grad))
    IN  [sxx |-> [sxx EXCEPT !.grad = AddValid(@, adj_vx_x)],
         szz |-> [szz EXCEPT !.grad = AddValid(@, adj_vz_z)],
         sxz |-> [sxz EXCEPT !.grad = AddValid(@, Plus(adj_vx_z, adj_vz_x))],
         cv |-> [cv EXCEPT !.grad = AddValid(cvg, TimesValid(Plus(szz_z, sxz_x), vz.grad))]]

\* --------------------------------------------------------- UpdateStress
\* csM[valid] * (vx_x + vz_z) - 2.0 * csu[valid] * w, interior-shaped
StressTerm(csM, csu, vx_x, vz_z, w) ==
    [i \in Rows(w) |-> [j \in Cols(w) |->
        csM[i + Pad][j + Pad] * (vx_x[i][j] + vz_z[i][j])
        - 2 * csu[i + Pad][j + Pad] * w[i][j]]]

UpdateStress_forward_bug(csM, csu, vx, vz, sxx, szz, sxz, backpropagate) ==
    LET vx_x == Dmx(vx.data)
        vx_z == Dpz(vx.data)
        vz_x == Dpx(vz.data)
        vz_z == Dmz(vz.data)
    IN  IF ~backpropagate
        THEN [sxx |-> [sxx EXCEPT !.data =
                        AddValid(@, StressTerm(csM.data, csu.data, vx_x, vz_z, vz_z))],
              szz |-> [szz EXCEPT !.data =
                        AddValid(ValidOnly(@), StressTerm(csM.data, csu.data, vx_x, vz_z, vx_x))],
              sxz |-> [sxz EXCEPT !.data =
                        AddValid(@, TimesValid(Plus(vx_z, vz_x), csu.data))]]
        ELSE [sxx |-> [sxx EXCEPT !.data =
                        SubValid(@, StressTerm(csM.data, csu.data, vx_x, vz_z, vz_z))],
              szz |-> [szz EXCEPT !.data =
                        SubValid(ValidOnly(@), StressTerm(csM.data, csu.data, vx_x, vz_z, vx_x))],
              sxz |-> [sxz EXCEPT !.data =
                        SubValid(@, TimesValid(Plus(vx_z, vz_x), csu.data))]]

UpdateStress_forward(csM, csu, vx, vz, sxx, szz, sxz, backpropagate) ==
    LET vx_x == Dmx(vx.data)
        vx_z == Dpz(vx.data)
        vz_x == Dpx(vz.data)
        vz_z == Dmz(vz.data)
    IN  IF ~backpropagate
        THEN [sxx |-> [sxx EXCEPT !.data =
                        AddValid(@, StressTerm(csM.data, csu.data, vx_x, vz_z, vz_z))],
              szz |-> [szz EXCEPT !.data =
                        AddValid(@, StressTerm(csM.data, csu.data, vx_x, vz_z, vx_x))],
              sxz |-> [sxz EXCEPT !.data =
                        AddValid(@, TimesValid(Plus(vx_z, vz_x), csu.data))]]
        ELSE [sxx |-> [sxx EXCEPT !.data =
                        SubValid(@, StressTerm(csM.data, csu.data, vx_x, vz_z, vz_z))],
              szz |-> [szz EXCEPT !.data =
                        SubValid(@, StressTerm(csM.data, csu.data, vx_x, vz_z, vx_x))],
              sxz |-> [sxz EXCEPT !.data =
                        SubValid(@, TimesValid(Plus(vx_z, vz_x), csu.data))]]

UpdateStress_linear(csM, csu, vx, vz, sxx, szz, sxz) ==
    LET vx_x == Dmx(vx.lin)
        vx_z == Dpz(vx.lin)
        vz_x == Dpx(vz.lin)
        vz_z == Dmz(vz.lin)
        sxxl == AddValid(sxx.lin, StressTerm(csM.data, csu.data, vx_x, vz_z, vz_z))
        szzl == AddValid(szz.lin, StressTerm(csM.data, csu.data, vx_x, vz_z, vx_x))
        sxzl == AddValid(sxz.lin, TimesValid(Plus(vx_z, vz_x), csu.data))
        dvx_x == Dmx(vx.data)
        dvx_z == Dpz(vx.data)
        dvz_x == Dpx(vz.data)
        dvz_z == Dmz(vz.data)
    IN  [sxx |-> [sxx EXCEPT !.lin =
                    AddValid(sxxl, StressTerm(csM.lin, csu.lin, dvx_x, dvz_z, dvz_z))],
         szz |-> [szz EXCEPT !.lin =
                    AddValid(szzl, StressTerm(csM.lin, csu.lin, dvx_x, dvz_z, dvx_x))],
         sxz |-> [sxz EXCEPT !.lin =
                    AddValid(sxzl, TimesValid(Plus(dvx_z, dvz_x), csu.lin))]]

UpdateStress_adjoint_bug(csM, csu, vx, vz, sxx, szz, sxz) ==
    LET csu0 == ValidOnly(csu.data)
        csM0 == ValidOnly(csM.data)
        adj_sxx_x == Neg(Dpx(Times(csM0, sxx.grad)))
        adj_sxx_z == Neg(Dpz(Times(MinusTwice(csM0, csu0), sxx.grad)))
        adj_szz_x == Neg(Dpx(Times(MinusTwice(csM0, csu0), szz.grad)))
        adj_szz_z == Neg(Dpz(Times(csM0, szz.grad)))
        adj_sxz_x == Neg(Dmx(Times(csu0, sxz.grad)))
        adj_sxz_z == Neg(Dmz(Times(csu0, sxz.grad)))
        vx_x == Dmx(vx.data)
        vx_z == Dpz(vx.data)
        vz_x == Dpx(vz.data)
        vz_z == Dmz(vz.data)
    IN  [vx |-> [vx EXCEPT !.grad = AddValid(@, Plus(Plus(adj_sxx_x, adj_szz_x), adj_sxz_z))],
         vz |-> [vz EXCEPT !.grad = AddValid(@, Plus(Plus(adj_sxx_z, adj_szz_z), adj_sxz_x))],
         csM |-> [csM EXCEPT !.grad = AddValid(ZerosLike(@),
                    Plus(TimesValid(Plus(vx_x, vz_z), sxx.grad),
                         TimesValid(Plus(vx_x, vz_z), szz.grad)))],
         csu |-> [csu EXCEPT !.grad = AddValid(@,
                    Plus(Plus(TimesValid(Neg(Twice(vz_z)), sxx.grad),
                              TimesValid(Neg(Twice(vx_x)), szz.grad)),
                         TimesValid(Plus(vx_z, vz_x), sxz.grad)))]]

UpdateStress_adjoint(csM, csu, vx, vz, sxx, szz, sxz) ==
    LET csu0 == ValidOnly(csu.data)
        csM0 == ValidOnly(csM.data)
        adj_sxx_x == Neg(Dpx(Times(csM0, sxx.grad)))
        adj_sxx_z == Neg(Dpz(Times(MinusTwice(csM0, csu0), sxx.grad)))
        adj_szz_x == Neg(Dpx(Times(MinusTwice(csM0, csu0), szz.grad)))
        adj_szz_z == Neg(Dpz(Times(csM0, szz.grad)))
        adj_sxz_x == Neg(Dmx(Times(csu0, sxz.grad)))
        adj_sxz_z == Neg(Dmz(Times(csu0, sxz.grad)))
        vx_x == Dmx(vx.data)
        vx_z == Dpz(vx.data)
        vz_x == Dpx(vz.data)
        vz_z == Dmz(vz.data)
    IN  [vx |-> [vx EXCEPT !.grad = AddValid(@, Plus(Plus(adj_sxx_x, adj_szz_x), adj_sxz_z))],
         vz |-> [vz EXCEPT !.grad = AddValid(@, Plus(Plus(adj_sxx_z, adj_szz_z), adj_sxz_x))],
         csM |-> [csM EXCEPT !.grad = AddValid(@,
                    Plus(TimesValid(Plus(vx_x, vz_z), sxx.grad),
                         TimesValid(Plus(vx_x, vz_z), szz.grad)))],
         csu |-> [csu EXCEPT !.grad = AddValid(@,
                    Plus(Plus(TimesValid(Neg(Twice(vz_z)), sxx.grad),
                              TimesValid(Neg(Twice(vx_x)), szz.grad)),
                         TimesValid(Plus(vx_z, vz_x), sxz.grad)))]]

\* ----------------------------------------------------- PointForceSource
\* does the index s of src_pos select the cell (r, c): an integer selects a
\* row, a pair a cell
Selects(s, r, c) == IF Len(s) = 1 THEN r = s[1] ELSE r = s[1] /\ c = s[2]

\* for ii, s in enumerate(src_pos): arr[s] += amount
RECURSIVE AddAtEach(_, _, _)
AddAtEach(arr, src_pos, amount) ==
    IF src_pos = <<>> THEN arr
    ELSE AddAtEach([r \in Rows(arr) |-> [c \in Cols(arr) |->
                        IF Selects(Head(src_pos), r, c) THEN arr[r][c] + amount
                        ELSE arr[r][c]]],
                   Tail(src_pos), amount)

PointForceSource_forward_bug(var, src, src_pos, backpropagate) ==
    LET sign == IF backpropagate THEN -1 ELSE 1
    IN  [var EXCEPT !.data = AddAtEach(@, SubSeq(src_pos, 1, 1), sign * src)]

\* PointForceSource.forward
PointForceSource_forward(var, src, src_pos, backpropagate) ==
    LET sign == IF backpropagate THEN -1 ELSE 1
    IN  [var EXCEPT !.data = AddAtEach(@, src_pos, sign * src)]

\* ------------------------------------------------------------ test arrays
\* np.zeros(shape) with one cell set
Impulse(R, C, p, v) ==
    [r \in 0 .. R - 1 |-> [c \in 0 .. C - 1 |-> IF <<r, c>> = p THEN v ELSE 0]]

Cells(R, C) == (0 .. R - 1) \X (0 .. C - 1)

Amps == (1 .. MaxAmp) \cup {-1}

\* a dense array with distinct neighbours, and the same with its halo zeroed
Dense(R, C) ==
    [r \in 0 .. R - 1 |-> [c \in 0 .. C - 1 |-> ((r * r + 2 * c + r * c) % 5) - 2]]

DenseValid(R, C) ==
    [r \in 0 .. R - 1 |-> [c \in 0 .. C - 1 |->
        IF r >= Pad /\ r <= R - Pad - 1 /\ c >= Pad /\ c <= C - Pad - 1
        THEN ((r + 3 * c + r * c) % 4) - 1 ELSE 0]]

TestArrays(R, C) ==
    {Impulse(R, C, p, v) : p \in Cells(R, C), v \in Amps}
        \cup {Dense(R, C), DenseValid(R, C)}

GR == NZ + 2 * Pad
GC == NX + 2 * Pad

\* ------------------------------------------------- the stencil pairs (C1)
InitStencil ==
    /\ pc = "in"
    /\ sa \in TestArrays(GR, GC)
    /\ sb \in TestArrays(GR, GC)
    /\ sop = "none"
    /\ sout = <<>>
    /\ sadj = <<>>
    /\ EmptyOps /\ EmptySurf /\ EmptyScale /\ EmptyTape /\ EmptyTaper

ApplyDpx ==
    /\ pc = "in"
    /\ sout' = Dpx(sa) /\ sadj' = Dpx_adj(sb)
    /\ sop' = "Dpx" /\ pc' = "done"
    /\ UNCHANGED <<sa, sb, notStencilVars>>

ApplyDmx ==
    /\ pc = "in"
    /\ sout' = Dmx(sa) /\ sadj' = Dmx_adj(sb)
    /\ sop' = "Dmx" /\ pc' = "done"
    /\ UNCHANGED <<sa, sb, notStencilVars>>

ApplyDpz ==
    /\ pc = "in"
    /\ sout' = Dpz(sa) /\ sadj' = Dpz_adj(sb)
    /\ sop' = "Dpz" /\ pc' = "done"
    /\ UNCHANGED <<sa, sb, notStencilVars>>

ApplyDmz ==
    /\ pc = "in"
    /\ sout' = Dmz(sa) /\ sadj' = Dmz_adj(sb)
    /\ sop' = "Dmz" /\ pc' = "done"
    /\ UNCHANGED <<sa, sb, notStencilVars>>

NextStencil == ApplyDpx \/ ApplyDmx \/ ApplyDpz \/ ApplyDmz

SpecStencil == InitStencil /\ [][NextStencil]_vars

\* C1: for each stencil pair (D, D_adj), every padded a and every b whose
\* halo cells are zero: the sum over the interior of b * D(a) equals the sum
\* over all cells of D_adj(b) * a.
C1_StencilTranspose ==
    (pc = "done" /\ HaloZero(sb)) => DotValid(sb, sout) = Dot(sadj, sa)

C1_Witness ==
    /\ pc = "done" /\ sop = "Dpx" /\ HaloZero(sb)
    /\ DotValid(sb, sout) # 0
    /\ \E r \in Rows(sa) : \E c \in Cols(sa) : ~IsValid(sa, r, c) /\ sa[r][c] # 0

\* ------------------------------------------- the operators, one at a time
\* The self-test driver of an operator: forward and then the same call with
\* backpropagate=True, or linear and adjoint at one primal state.
FieldNames == {"cv", "csM", "csu", "vx", "vz", "sxx", "szz", "sxz"}

FieldIndex == [cv |-> 1, csM |-> 2, csu |-> 3, vx |-> 4, vz |-> 5,
               sxx |-> 6, szz |-> 7, sxz |-> 8]

\* a dense array, different for every k
Pattern(R, C, k) ==
    [r \in 0 .. R - 1 |-> [c \in 0 .. C - 1 |-> ((r * r + k * c + r * c + k) % 5) - 2]]

Zeros(R, C) == [r \in 0 .. R - 1 |-> [c \in 0 .. C - 1 |-> 0]]

\* the Variables of one test: dense data; one of lin and grad is dense in
\* every Variable and the other is a single nonzero cell of the Variable xf
TestFields(seed, impulseIn, xf, p, v) ==
    [f \in FieldNames |->
        LET one == IF f = xf THEN Impulse(GR, GC, p, v) ELSE Zeros(GR, GC)
        IN  Variable(Pattern(GR, GC, FieldIndex[f] + seed),
                     IF impulseIn = "lin" THEN one ELSE Pattern(GR, GC, FieldIndex[f] + 3),
                     IF impulseIn = "grad" THEN one ELSE Pattern(GR, GC, FieldIndex[f] + 6))]

\* the src_pos arguments: two rows (the test's (0, 1)), one cell, one cell twice
SrcPositions == {<< <<0>>, <<1>> >>, << <<2, 2>> >>, << <<2, 3>>, <<2, 3>> >>}

\* the Variables after a call that returns the updated ones
Updated(Fs, upd) == [f \in DOMAIN Fs |-> IF f \in DOMAIN upd THEN upd[f] ELSE Fs[f]]

InitOps ==
    /\ pc = "ready"
    /\ F \in {TestFields(seed, w, xf, p, v) :
                seed \in 0 .. 1, w \in {"lin", "grad"}, xf \in FieldNames,
                p \in Cells(GR, GC), v \in Amps}
    /\ F0 = F
    /\ F1 = <<>>
    /\ call = [op |-> "none"]
    /\ EmptyStencil /\ EmptySurf /\ EmptyScale /\ EmptyTape /\ EmptyTaper

UpdateVelocityForward ==
    /\ pc = "ready"
    /\ F' = Updated(F, UpdateVelocity_forward(F.cv, F.vx, F.vz, F.sxx, F.szz, F.sxz, FALSE))
    /\ F1' = F'
    /\ call' = [op |-> "UpdateVelocity"]
    /\ pc' = "fwd"
    /\ UNCHANGED <<F0, notOpsVars>>

UpdateVelocityBackpropagate ==
    /\ pc = "fwd" /\ call.op = "UpdateVelocity"
    /\ F' = Updated(F, UpdateVelocity_forward(F.cv, F.vx, F.vz, F.sxx, F.szz, F.sxz, TRUE))
    /\ pc' = "restored"
    /\ UNCHANGED <<F0, F1, call, notOpsVars>>

UpdateStressForward ==
    /\ pc = "ready"
    /\ F' = Updated(F, UpdateStress_forward(F.csM, F.csu, F.vx, F.vz,
                                            F.sxx, F.szz, F.sxz, FALSE))
    /\ F1' = F'
    /\ call' = [op |-> "UpdateStress"]
    /\ pc' = "fwd"
    /\ UNCHANGED <<F0, notOpsVars>>

UpdateStressBackpropagate ==
    /\ pc = "fwd" /\ call.op = "UpdateStress"
    /\ F' = Updated(F, UpdateStress_forward(F.csM, F.csu, F.vx, F.vz,
                                            F.sxx, F.szz, F.sxz, TRUE))
    /\ pc' = "restored"
    /\ UNCHANGED <<F0, F1, call, notOpsVars>>

PointForceSourceForward ==
    /\ pc = "ready"
    /\ \E var \in {"vx", "vz"}, src \in Amps, src_pos \in SrcPositions :
        /\ F' = [F EXCEPT ![var] = PointForceSource_forward(F[var], src, src_pos, FALSE)]
        /\ call' = [op |-> "PointForceSource", var |-> var, src |-> src, src_pos |-> src_pos]
    /\ F1' = F'
    /\ pc' = "fwd"
    /\ UNCHANGED <<F0, notOpsVars>>

PointForceSourceBackpropagate ==
    /\ pc = "fwd" /\ call.op = "PointForceSource"
    /\ F' = [F EXCEPT ![call.var] =
                PointForceSource_forward(F[call.var], call.src, call.src_pos, TRUE)]
    /\ pc' = "restored"
    /\ UNCHANGED <<F0, F1, call, notOpsVars>>

UpdateVelocityLinear ==
    /\ pc = "ready" \/ (pc = "adj" /\ call.op = "UpdateVelocity")
    /\ F' = Updated(F, UpdateVelocity_linear(F.cv, F.vx, F.vz, F.sxx, F.szz, F.sxz))
    /\ call' = [op |-> "UpdateVelocity"]
    /\ pc' = IF pc = "ready" THEN "lin" ELSE "linadj"
    /\ UNCHANGED <<F0, F1, notOpsVars>>

UpdateVelocityAdjoint ==
    /\ pc = "ready" \/ (pc = "lin" /\ call.op = "UpdateVelocity")
    /\ F' = Updated(F, UpdateVelocity_adjoint(F.cv, F.vx, F.vz, F.sxx, F.szz, F.sxz))
    /\ call' = [op |-> "UpdateVelocity"]
    /\ pc' = IF pc = "ready" THEN "adj" ELSE "linadj"
    /\ UNCHANGED <<F0, F1, notOpsVars>>

UpdateStressLinear ==
    /\ pc = "ready" \/ (pc = "adj" /\ call.op = "UpdateStress")
    /\ F' = Updated(F, UpdateStress_linear(F.csM, F.csu, F.vx, F.vz, F.sxx, F.szz, F.sxz))
    /\ call' = [op |-> "UpdateStress"]
    /\ pc' = IF pc = "ready" THEN "lin" ELSE "linadj"
    /\ UNCHANGED <<F0, F1, notOpsVars>>

UpdateStressAdjoint ==
    /\ pc = "ready" \/ (pc = "lin" /\ call.op = "UpdateStress")
    /\ F' = Updated(F, UpdateStress_adjoint(F.csM, F.csu, F.vx, F.vz, F.sxx, F.szz, F.sxz))
    /\ call' = [op |-> "UpdateStress"]
    /\ pc' = IF pc = "ready" THEN "adj" ELSE "linadj"
    /\ UNCHANGED <<F0, F1, notOpsVars>>

NextOps ==
    \/ UpdateVelocityForward \/ UpdateVelocityBackpropagate
    \/ UpdateStressForward \/ UpdateStressBackpropagate
    \/ PointForceSourceForward \/ PointForceSourceBackpropagate
    \/ UpdateVelocityLinear \/ UpdateVelocityAdjoint
    \/ UpdateStressLinear \/ UpdateStressAdjoint

SpecOps == InitOps /\ [][NextOps]_vars

\* the argument Variables of an operator, in call order
ArgsOf(op) ==
    IF op = "UpdateVelocity" THEN <<"cv", "vx", "vz", "sxx", "szz", "sxz">>
    ELSE IF op = "UpdateStress" THEN <<"csM", "csu", "vx", "vz", "sxx", "szz", "sxz">>
    ELSE IF op = "PointForceSource" THEN <<call.var>>
    ELSE <<>>

\* sum over the argument Variables of np.sum(A[f][wa] * B[f][wb])
DotFields(A, wa, B, wb, names) ==
    SumTo([k \in 0 .. Len(names) - 1 |-> Dot(A[names[k + 1]][wa], B[names[k + 1]][wb])],
          Len(names) - 1)

\* C2: for UpdateVelocity, UpdateStress and PointForceSource, forward and
\* then forward with backpropagate=True on the same arguments leaves the
\* data array of every argument as it was before the first call.
C2_ForwardBackpropagateRestores ==
    pc = "restored" =>
        \A k \in 1 .. Len(ArgsOf(call.op)) :
            F[ArgsOf(call.op)[k]].data = F0[ArgsOf(call.op)[k]].data

C2_Witness ==
    /\ pc = "restored" /\ call.op = "UpdateStress"
    /\ F1.sxx.data # F0.sxx.data /\ F1.sxz.data # F0.sxz.data
    /\ F.sxx.data = F0.sxx.data

Quot(n, d) ==
    IF d > 0 THEN (IF n >= 0 THEN n \div d ELSE -((-n) \div d))
    ELSE (IF n >= 0 THEN -(n \div (-d)) ELSE (-n) \div (-d))

\* h = -((g - f) * (g - f) * vxx / g) - ((g - f) * vzz), column by column
SurfaceH(vx, vz, csu, csM) ==
    LET vxx == Dmx(vx)[0]
        vzz == Dmz(vz)[0]
    IN  [j \in DOMAIN vxx |->
            LET f == csu[Pad][j + Pad] * 2
                g == csM[Pad][j + Pad]
            IN  -Quot((g - f) * (g - f) * vxx[j], g) - ((g - f) * vzz[j])]

\* a[pad:pad+1, :] = 0.0
ZeroRowPad(a) ==
    [r \in Rows(a) |-> [c \in Cols(a) |-> IF r = Pad THEN 0 ELSE a[r][c]]]

MirrorHalo_bug(a) ==
    [r \in Rows(a) |-> [c \in Cols(a) |-> IF r < Pad THEN -a[2 * Pad - r - 1][c] ELSE a[r][c]]]

\* a[:pad, :] = -a[pad+1:2*pad+1, :][::-1, :]
MirrorHalo(a) ==
    [r \in Rows(a) |-> [c \in Cols(a) |-> IF r < Pad THEN -a[2 * Pad - r][c] ELSE a[r][c]]]

FreeSurface_forward(states) ==
    LET h == SurfaceH(states.vx, states.vz, states.csu, states.csM)
    IN  [states EXCEPT
            !.szz = MirrorHalo(ZeroRowPad(@)),
            !.sxz = MirrorHalo(@),
            !.sxx = [r \in Rows(@) |-> [c \in Cols(@) |->
                        IF r = Pad /\ IsValid(@, r, c) THEN @[r][c] + h[c - Pad]
                        ELSE @[r][c]]]]

updated_states == <<"sxx", "szz", "sxz">>

SavedStrip_bug(states) ==
    [el \in {updated_states[k] : k \in 1 .. Len(updated_states)} |->
        [r \in 0 .. Pad - 1 |-> states[el][r]]]

\* saved[el] = states[el][:pad+1, :].copy() for el in self.updated_states
SavedStrip(states) ==
    [el \in {updated_states[k] : k \in 1 .. Len(updated_states)} |->
        [r \in 0 .. Pad |-> states[el][r]]]

\* FreeSurface.__call__: push the strip, then forward
FreeSurface_call(states, fstates) ==
    [states |-> FreeSurface_forward(states),
     fstates |-> Append(fstates, SavedStrip(states))]

\* for el in torestore: states[el][:pad+1, :] = torestore[el]
RestoreStrip(states, torestore) ==
    [el \in DOMAIN states |->
        IF el \in DOMAIN torestore
        THEN [r \in Rows(states[el]) |->
                IF r \in DOMAIN torestore[el] THEN torestore[el][r] ELSE states[el][r]]
        ELSE states[el]]

FreeSurface_backward_fifo(states, fstates) ==
    IF fstates = <<>>
    THEN [raised |-> "IndexError", states |-> states, fstates |-> fstates]
    ELSE [raised |-> "none",
          states |-> RestoreStrip(states, Head(fstates)),
          fstates |-> Tail(fstates)]

FreeSurface_backward_silent(states, fstates) ==
    IF fstates = <<>>
    THEN [raised |-> "none", states |-> states, fstates |-> fstates]
    ELSE [raised |-> "none",
          states |-> RestoreStrip(states, fstates[Len(fstates)]),
          fstates |-> SubSeq(fstates, 1, Len(fstates) - 1)]

\* FreeSurface.backward: list.pop() raises IndexError on an empty list,
\* before any array is written
FreeSurface_backward(states, fstates) ==
    IF fstates = <<>>
    THEN [raised |-> "IndexError", states |-> states, fstates |-> fstates]
    ELSE [raised |-> "none",
          states |-> RestoreStrip(states, fstates[Len(fstates)]),
          fstates |-> SubSeq(fstates, 1, Len(fstates) - 1)]

\* an array of moduli that divide what the free surface divides by them
Moduli(R, C, k) ==
    [r \in 0 .. R - 1 |-> [c \in 0 .. C - 1 |->
        <<1, 2, -1, -2>>[((r + k * c + r * c + k) % 4) + 1]]]

SurfaceStates(seed) ==
    [vx |-> Pattern(GR, GC, 4 + seed), vz |-> Pattern(GR, GC, 5 + 2 * seed),
     sxx |-> Pattern(GR, GC, 6 + seed), szz |-> Pattern(GR, GC, 7 + 3 * seed),
     sxz |-> Pattern(GR, GC, 8 + seed), csu |-> Pattern(GR, GC, 3 + seed),
     csM |-> Moduli(GR, GC, seed)]

InitSurf ==
    /\ pc = "surface"
    /\ S \in {SurfaceStates(seed) : seed \in 0 .. 4}
    /\ stack = <<>>
    /\ status = "ok"
    /\ trace = <<>>
    /\ snaps = <<>>
    /\ EmptyStencil /\ EmptyOps /\ EmptyScale /\ EmptyTape /\ EmptyTaper

FreeSurfaceCall ==
    /\ status = "ok" /\ Len(trace) < MaxCalls
    /\ LET r == FreeSurface_call(S, stack)
       IN  S' = r.states /\ stack' = r.fstates
    /\ trace' = Append(trace, "call")
    /\ snaps' = Append(snaps, S)
    /\ UNCHANGED <<status, notSurfVars>>

FreeSurfaceForward ==
    /\ status = "ok" /\ Len(trace) < MaxCalls
    /\ S' = FreeSurface_forward(S)
    /\ trace' = Append(trace, "forward")
    /\ snaps' = Append(snaps, S)
    /\ UNCHANGED <<stack, status, notSurfVars>>

FreeSurfaceBackward ==
    /\ status = "ok" /\ Len(trace) < MaxCalls
    /\ LET r == FreeSurface_backward(S, stack)
       IN  /\ S' = r.states /\ stack' = r.fstates
           /\ status' = IF r.raised = "none" THEN "ok" ELSE r.raised
    /\ trace' = Append(trace, "backward")
    /\ snaps' = Append(snaps, S)
    /\ UNCHANGED notSurfVars

NextSurf == FreeSurfaceCall \/ FreeSurfaceForward \/ FreeSurfaceBackward

SpecSurf == InitSurf /\ [][NextSurf]_vars

\* the states after call k
After(k) == IF k < Len(trace) THEN snaps[k + 1] ELSE S

\* the calls (__call__) among the first n calls that no backward among them
\* has unwound, oldest first
RECURSIVE Outstanding(_)
Outstanding(n) ==
    IF n = 0 THEN <<>>
    ELSE LET o == Outstanding(n - 1)
         IN  IF trace[n] = "call" THEN Append(o, n)
             ELSE IF trace[n] = "backward" /\ o # <<>> THEN SubSeq(o, 1, Len(o) - 1)
             ELSE o

Strip(a) == [r \in 0 .. Pad |-> a[r]]

Stresses == {"sxx", "szz", "sxz"}

\* C4: an application followed by backward restores sxx, szz and sxz exactly:
\* forward changes no cell outside rows 0..pad of the three arrays, and
\* backward writes those rows back.
C4_CallBackwardRestores ==
    /\ \A k \in 1 .. Len(trace) :
        trace[k] \in {"call", "forward"} =>
            \A el \in Stresses : \A r \in Rows(S[el]) :
                r > Pad => After(k)[el][r] = snaps[k][el][r]
    /\ \A k \in 1 .. Len(trace) - 1 :
        (trace[k] = "call" /\ trace[k + 1] = "backward") =>
            \A el \in Stresses : After(k + 1)[el] = snaps[k][el]

C4_Witness ==
    /\ Len(trace) = 2 /\ trace[1] = "call" /\ trace[2] = "backward"
    /\ snaps[2].sxx # snaps[1].sxx
    /\ snaps[2].szz # snaps[1].szz
    /\ snaps[2].sxz # snaps[1].sxz
    /\ S = snaps[1]

\* C5: while no backward has met an empty stack, the stack depth is the
\* number of applications minus the number of backward calls, and a backward
\* restores the strip saved by the latest application not yet unwound.
C5_StackLifo ==
    status = "ok" =>
        /\ Len(stack) = Len(Outstanding(Len(trace)))
        /\ Len(stack) = Cardinality({k \in 1 .. Len(trace) : trace[k] = "call"})
                        - Cardinality({k \in 1 .. Len(trace) : trace[k] = "backward"})
        /\ \A k \in 1 .. Len(trace) :
            trace[k] = "backward" =>
                LET o == Outstanding(k - 1)
                IN  \A el \in Stresses :
                        Strip(After(k)[el]) = Strip(snaps[o[Len(o)]][el])

C5_Witness ==
    /\ status = "ok" /\ Len(trace) = 4
    /\ trace = <<"call", "call", "backward", "backward">>
    /\ Strip(snaps[1].sxx) # Strip(snaps[2].sxx)
    /\ stack = <<>>
    /\ S = snaps[1]

\* C6: backward on an empty stack ends in an error and changes no array.
C6_UnderflowIsFatal ==
    /\ (trace # <<>> /\ trace[Len(trace)] = "backward"
            /\ Outstanding(Len(trace) - 1) = <<>>)
        => (status = "IndexError" /\ S = snaps[Len(trace)])
    /\ status # "ok" => ~ENABLED NextSurf

C6_Witness ==
    /\ status = "IndexError"
    /\ Len(trace) = 3 /\ trace = <<"call", "backward", "backward">>

\* C7: after forward, szz is 0 on row pad, and rows pad-j of szz and sxz are
\* the negated rows pad+j, for j in 1..pad.
C7_ZeroStressRow ==
    (trace # <<>> /\ trace[Len(trace)] \in {"call", "forward"}) =>
        \A c \in Cols(S.szz) :
            /\ S.szz[Pad][c] = 0
            /\ \A j \in 1 .. Pad :
                /\ S.szz[Pad - j][c] = -S.szz[Pad + j][c]
                /\ S.sxz[Pad - j][c] = -S.sxz[Pad + j][c]

C7_Witness ==
    /\ Len(trace) = 1 /\ trace[1] = "forward"
    /\ \E c \in Cols(S.szz) :
        /\ snaps[1].szz[Pad][c] # 0
        /\ snaps[1].szz[Pad - 2][c] # -snaps[1].szz[Pad + 2][c]
        /\ S.szz[Pad + 2][c] # 0 /\ S.sxz[Pad + 1][c] # 0

\* ----------------------------------------------------- ScaledParameters
\* The arrays of vp, vs and rho hold fractions <<n, d>> in lowest terms with
\* d > 0: the rescaling divides and takes square roots.
RECURSIVE Gcd(_, _)
Gcd(a, b) == IF b = 0 THEN a ELSE Gcd(b, a % b)

Abs(n) == IF n < 0 THEN -n ELSE n

Frac(n, d) ==
    LET g == Gcd(Abs(n), Abs(d))
    IN  IF d > 0 THEN <<n \div g, d \div g>> ELSE <<(-n) \div g, (-d) \div g>>

\* factors common to a numerator and the other denominator are cancelled
\* before multiplying, to keep the products small
FMul(x, y) ==
    LET a == Frac(x[1], y[2])
        b == Frac(y[1], x[2])
    IN  <<a[1] * b[1], a[2] * b[2]>>
FDiv(x, y) == FMul(x, Frac(y[2], y[1]))
FLess(x, y) == x[1] * y[2] < y[1] * x[2]

RECURSIVE Pow(_, _)
Pow(b, e) == IF e = 0 THEN 1 ELSE b * Pow(b, e - 1)

\* 2 ** e for an integer e of either sign
Pow2(e) == IF e >= 0 THEN <<Pow(2, e), 1>> ELSE <<1, Pow(2, -e)>>

\* the largest k with 2 ** k * d <= n, for n >= d > 0
RECURSIVE FloorLog2(_, _)
FloorLog2(n, d) == IF 2 * d > n THEN 0 ELSE 1 + FloorLog2(n, 2 * d)

\* int(np.log2(x)) for a fraction x > 0: int() rounds toward zero
IntLog2(x) == IF x[1] >= x[2] THEN FloorLog2(x[1], x[2]) ELSE -FloorLog2(x[2], x[1])

\* the largest k with k * k <= n
ISqrt(n) == CHOOSE k \in 0 .. n : k * k <= n /\ (k + 1) * (k + 1) > n

\* np.sqrt(x): the exact root of a fraction of two squares (the only
\* operands a forward/backpropagate round trip produces); the roots of
\* numerator and denominator rounded down otherwise
FSqrt(x) == Frac(ISqrt(x[1]), ISqrt(x[2]))

\* np.max(M)
MaxOver(M) ==
    LET vals == {M[r][c] : r \in Rows(M), c \in Cols(M)}
    IN  CHOOSE m \in vals : \A v \in vals : ~FLess(m, v)

\* ScaledParameters.scale
scale(M, dtdx_) == IntLog2(FMul(MaxOver(M), dtdx_))

\* x ** 2 * y, cell by cell
SquareTimes(x, y) ==
    [r \in Rows(x) |-> [c \in Cols(x) |-> FMul(FMul(x[r][c], x[r][c]), y[r][c])]]

\* k * x, cell by cell
Scaled(k, x) == [r \in Rows(x) |-> [c \in Cols(x) |-> FMul(k, x[r][c])]]

\* y[valid] = k / x[valid]
InvertValid(k, x) ==
    [r \in Rows(x) |-> [c \in Cols(x) |->
        IF IsValid(x, r, c) THEN FDiv(k, x[r][c]) ELSE x[r][c]]]

\* x[valid] = np.sqrt(x[valid] / y[valid])
SqrtRatioValid(x, y) ==
    [r \in Rows(x) |-> [c \in Cols(x) |->
        IF IsValid(x, r, c) THEN FSqrt(FDiv(x[r][c], y[r][c])) ELSE x[r][c]]]

ScaledParameters_forward_bug(vp, vs, rho, self_sc, self_dtdx, backpropagate) ==
    IF ~backpropagate
    THEN LET vp1 == SquareTimes(vp.data, rho.data)
             vs1 == SquareTimes(vs.data, rho.data)
             sc1 == scale(vp1, self_dtdx)
         IN  [vp |-> [vp EXCEPT !.data = Scaled(FMul(self_dtdx, Pow2(-sc1)), vp1)],
              vs |-> [vs EXCEPT !.data = Scaled(FMul(self_dtdx, Pow2(-sc1)), vs1)],
              rho |-> [rho EXCEPT !.data = InvertValid(FMul(Pow2(sc1), self_dtdx), @)],
              sc |-> sc1]
    ELSE LET rho1 == InvertValid(FMul(Pow2(self_sc), self_dtdx), rho.data)
             vp1 == Scaled(FMul(FDiv(<<1, 1>>, self_dtdx), Pow2(self_sc)), vp.data)
             vs1 == Scaled(FMul(FDiv(<<1, 1>>, self_dtdx), Pow2(self_sc)), vs.data)
         IN  [vp |-> [vp EXCEPT !.data = SqrtRatioValid(vp1, rho1)],
              vs |-> [vs EXCEPT !.data = SqrtRatioValid(vp1, rho1)],
              rho |-> [rho EXCEPT !.data = rho1],
              sc |-> self_sc]

\* ScaledParameters.forward; sc is the value self.sc holds after the call
ScaledParameters_forward(vp, vs, rho, self_sc, self_dtdx, backpropagate) ==
    IF ~backpropagate
    THEN LET vp1 == SquareTimes(vp.data, rho.data)
             vs1 == SquareTimes(vs.data, rho.data)
             sc1 == scale(vp1, self_dtdx)
         IN  [vp |-> [vp EXCEPT !.data = Scaled(FMul(self_dtdx, Pow2(-sc1)), vp1)],
              vs |-> [vs EXCEPT !.data = Scaled(FMul(self_dtdx, Pow2(-sc1)), vs1)],
              rho |-> [rho EXCEPT !.data = InvertValid(FMul(Pow2(sc1), self_dtdx), @)],
              sc |-> sc1]
    ELSE LET rho1 == InvertValid(FMul(Pow2(self_sc), self_dtdx), rho.data)
             vp1 == Scaled(FMul(FDiv(<<1, 1>>, self_dtdx), Pow2(self_sc)), vp.data)
             vs1 == Scaled(FMul(FDiv(<<1, 1>>, self_dtdx), Pow2(self_sc)), vs.data)
         IN  [vp |-> [vp EXCEPT !.data = SqrtRatioValid(vp1, rho1)],
              vs |-> [vs EXCEPT !.data = SqrtRatioValid(vs1, rho1)],
              rho |-> [rho EXCEPT !.data = rho1],
              sc |-> self_sc]

FAdd(x, y) ==
    LET g == Gcd(x[2], y[2])
    IN  Frac(x[1] * (y[2] \div g) + y[1] * (x[2] \div g), (x[2] \div g) * y[2])
FNeg(x) == <<-x[1], x[2]>>

\* x + y, cell by cell
FPlus(x, y) == [r \in Rows(x) |-> [c \in Cols(x) |-> FAdd(x[r][c], y[r][c])]]

\* x * y, cell by cell
FTimes(x, y) == [r \in Rows(x) |-> [c \in Cols(x) |-> FMul(x[r][c], y[r][c])]]

\* 2.0 * (x * y) * xl, cell by cell
TwiceProduct(x, y, xl) == FTimes(Scaled(<<2, 1>>, FTimes(x, y)), xl)

\* y[valid] = - k / x[valid] ** 2 * y[valid]
MinusOverSquareValid(k, x, y) ==
    [r \in Rows(x) |-> [c \in Cols(x) |->
        IF IsValid(x, r, c)
        THEN FMul(FDiv(FNeg(k), FMul(x[r][c], x[r][c])), y[r][c])
        ELSE y[r][c]]]

\* ScaledParameters.linear; sc is the value self.sc holds after the call
ScaledParameters_linear(vp, vs, rho, self_dtdx) ==
    LET vpl == FPlus(TwiceProduct(vp.data, rho.data, vp.lin),
                     FTimes(FTimes(vp.data, vp.data), rho.lin))
        vsl == FPlus(TwiceProduct(vs.data, rho.data, vs.lin),
                     FTimes(FTimes(vs.data, vs.data), rho.lin))
        sc1 == scale(SquareTimes(vp.data, rho.data), self_dtdx)
    IN  [vp |-> [vp EXCEPT !.lin = Scaled(FMul(self_dtdx, Pow2(-sc1)), vpl)],
         vs |-> [vs EXCEPT !.lin = Scaled(FMul(self_dtdx, Pow2(-sc1)), vsl)],
         rho |-> [rho EXCEPT !.lin =
                     MinusOverSquareValid(FMul(Pow2(sc1), self_dtdx), rho.data, @)],
         sc |-> sc1]

\* ScaledParameters.adjoint, for a recorded self.sc
ScaledParameters_adjoint(vp, vs, rho, self_sc, self_dtdx) ==
    LET vpg == Scaled(FMul(self_dtdx, Pow2(-self_sc)), vp.grad)
        vsg == Scaled(FMul(self_dtdx, Pow2(-self_sc)), vs.grad)
        rhog == MinusOverSquareValid(FMul(Pow2(self_sc), self_dtdx), rho.data, rho.grad)
    IN  [vp |-> [vp EXCEPT !.grad = TwiceProduct(vp.data, rho.data, vpg)],
         vs |-> [vs EXCEPT !.grad = TwiceProduct(vs.data, rho.data, vsg)],
         rho |-> [rho EXCEPT !.grad =
                     FPlus(FPlus(rhog, FTimes(FTimes(vp.data, vp.data), vpg)),
                           FTimes(FTimes(vs.data, vs.data), vsg))],
         sc |-> self_sc]

\* a dense array of positive whole numbers; with zeroHalo its halo is zero,
\* as in an array padded with zeros
Positive(R, C, k, zeroHalo) ==
    [r \in 0 .. R - 1 |-> [c \in 0 .. C - 1 |->
        IF zeroHalo /\ ~(r >= Pad /\ r <= R - Pad - 1 /\ c >= Pad /\ c <= C - Pad - 1)
        THEN <<0, 1>>
        ELSE <<((r * r + k * c + r * c + k) % (MaxAmp + 1)) + 1, 1>>]]

FZeros(R, C) == [r \in 0 .. R - 1 |-> [c \in 0 .. C - 1 |-> <<0, 1>>]]

\* a dense array of whole numbers of either sign, for lin and grad
Signed(R, C, k) == [r \in 0 .. R - 1 |-> [c \in 0 .. C - 1 |-> <<Pattern(R, C, k)[r][c], 1>>]]

Parameters(seed, rseed, zeroHalo) ==
    [vp |-> Variable(Positive(GR, GC, seed, zeroHalo),
                     Signed(GR, GC, seed + 1), Signed(GR, GC, seed + 3)),
     vs |-> Variable(Positive(GR, GC, seed + 2, zeroHalo),
                     Signed(GR, GC, seed + 2), Signed(GR, GC, rseed)),
     rho |-> Variable(Positive(GR, GC, rseed, FALSE),
                      Signed(GR, GC, rseed + 1), Signed(GR, GC, rseed + 4))]

\* dt / dx
TimeSteps == {<<1, 1>>, <<3, 1>>, <<1, 3>>, <<1, 64>>}

InitScale ==
    /\ pc = "ready"
    /\ P \in {Parameters(seed, rseed, z) :
                seed \in 0 .. MaxAmp, rseed \in 0 .. MaxAmp, z \in BOOLEAN}
    /\ P0 = P
    /\ P1 = <<>>
    /\ sc = "None"
    /\ dtdx \in TimeSteps
    /\ EmptyStencil /\ EmptyOps /\ EmptySurf /\ EmptyTape /\ EmptyTaper

ScaledParametersForward ==
    /\ pc = "ready"
    /\ LET r == ScaledParameters_forward(P.vp, P.vs, P.rho, sc, dtdx, FALSE)
       IN  /\ P' = [vp |-> r.vp, vs |-> r.vs, rho |-> r.rho]
           /\ sc' = r.sc
    /\ P1' = P'
    /\ pc' = "fwd"
    /\ UNCHANGED <<P0, dtdx, notScaleVars>>

ScaledParametersBackpropagate ==
    /\ pc = "fwd"
    /\ LET r == ScaledParameters_forward(P.vp, P.vs, P.rho, sc, dtdx, TRUE)
       IN  /\ P' = [vp |-> r.vp, vs |-> r.vs, rho |-> r.rho]
           /\ sc' = r.sc
    /\ pc' = "restored"
    /\ UNCHANGED <<P0, P1, dtdx, notScaleVars>>

\* linear at the primal state, after forward, or after the round trip
ScaledParametersLinear ==
    /\ pc \in {"ready", "fwd", "restored"}
    /\ LET r == ScaledParameters_linear(P.vp, P.vs, P.rho, dtdx)
       IN  /\ P' = [vp |-> r.vp, vs |-> r.vs, rho |-> r.rho]
           /\ sc' = r.sc
    /\ pc' = CASE pc = "ready" -> "lin" [] pc = "fwd" -> "fwd-lin" [] pc = "restored" -> "restored-lin"
    /\ UNCHANGED <<P0, P1, dtdx, notScaleVars>>

\* adjoint once self.sc is recorded (2 ** -None is a TypeError before that)
ScaledParametersAdjoint ==
    /\ pc \in {"fwd", "lin", "restored"}
    /\ LET r == ScaledParameters_adjoint(P.vp, P.vs, P.rho, sc, dtdx)
       IN  /\ P' = [vp |-> r.vp, vs |-> r.vs, rho |-> r.rho]
           /\ sc' = r.sc
    /\ pc' = CASE pc = "fwd" -> "fwd-adj" [] pc = "lin" -> "lin-adj" [] pc = "restored" -> "restored-adj"
    /\ UNCHANGED <<P0, P1, dtdx, notScaleVars>>

NextScale ==
    \/ ScaledParametersForward
    \/ ScaledParametersBackpropagate
    \/ ScaledParametersLinear
    \/ ScaledParametersAdjoint

SpecScale == InitScale /\ [][NextScale]_vars

\* C11: once forward has recorded sc, no later linear, adjoint or
\* backpropagating call on the instance changes it.
C11_ScaleExponentFrozen ==
    [][(pc \in {"fwd", "restored"}) => (sc' = sc)]_vars

\* C10 as claimed: forward and then forward with backpropagate=True
\* reproduce vp, vs and rho in every cell, halo cells included.
C10_RoundTripEveryCell ==
    pc = "restored" =>
        /\ P.vp.data = P0.vp.data /\ P.vs.data = P0.vs.data /\ P.rho.data = P0.rho.data

\* C10 (amended): the round trip reproduces vp, vs and rho in every valid
\* cell and rho in every halo cell; a halo cell of vp or vs is left holding
\* its original value squared times the rho of that cell.
C10_RoundTripValid ==
    pc = "restored" =>
        /\ P.rho.data = P0.rho.data
        /\ \A r \in 0 .. GR - 1 : \A c \in 0 .. GC - 1 :
            IF IsValid(P.vp.data, r, c)
            THEN /\ P.vp.data[r][c] = P0.vp.data[r][c]
                 /\ P.vs.data[r][c] = P0.vs.data[r][c]
            ELSE /\ P.vp.data[r][c] = SquareTimes(P0.vp.data, P0.rho.data)[r][c]
                 /\ P.vs.data[r][c] = SquareTimes(P0.vs.data, P0.rho.data)[r][c]

C10_Witness ==
    /\ pc = "restored" /\ sc # 0
    /\ \E r \in 0 .. GR - 1 : \E c \in 0 .. GC - 1 :
        /\ IsValid(P.vp.data, r, c)
        /\ P1.vp.data[r][c] # P0.vp.data[r][c]
        /\ P1.rho.data[r][c] # P0.rho.data[r][c]
        /\ P.vp.data[r][c] = P0.vp.data[r][c]
    /\ \E r \in 0 .. GR - 1 : \E c \in 0 .. GC - 1 :
        ~IsValid(P.vp.data, r, c) /\ P.vp.data[r][c] # P0.vp.data[r][c]

\* ------------------------------------------------------------ elastic2d
\* One update of UpdateVelocity or UpdateStress multiplies the magnitude of a
\* wavefield by about Scale, so a run of several timesteps is followed on
\* terms, not on numbers: the value of a wavefield is the id of a term of
\* defs that names the operator that wrote it, the value it replaced (base)
\* and the values the operator read (reads).  Equal terms are equal values.
\* A call with backpropagate=True gives back the value replaced exactly when
\* it meets the value its forward call wrote and reads the values that call
\* read (C2, on numbers); in any other case it leaves a new value.  The
\* arrays of vp, vs and rho stay numbers.
MaxNT == 3

WaveFields == <<"vx", "vz", "sxx", "szz", "sxz", "vzout">>

InitialDefs == [i \in 1 .. 6 |-> [op |-> WaveFields[i], inv |-> FALSE, base |-> 0, reads |-> <<>>]]

InitialW == [vx |-> 1, vz |-> 2, sxx |-> 3, szz |-> 4, sxz |-> 5, vzout |-> 6]

SameTerm(d, e) == d.op = e.op /\ d.inv = e.inv /\ d.base = e.base /\ d.reads = e.reads

Intern(table, e) ==
    IF \E i \in 1 .. Len(table) : SameTerm(table[i], e) THEN table ELSE Append(table, e)

IdOf(table, e) == CHOOSE i \in 1 .. Len(table) : SameTerm(table[i], e)

\* field (+)= f(reads) without backpropagate, field (-)= f(reads) with it
InPlace(Wd, field, op, reads, backpropagate) ==
    LET cur == Wd.defs[Wd.W[field]]
        e == [op |-> op, inv |-> backpropagate, base |-> Wd.W[field], reads |-> reads]
        tb == Intern(Wd.defs, e)
    IN  IF backpropagate /\ cur.op = op /\ ~cur.inv /\ cur.reads = reads
        THEN [W |-> [Wd.W EXCEPT ![field] = cur.base], defs |-> Wd.defs]
        ELSE [W |-> [Wd.W EXCEPT ![field] = IdOf(tb, e)], defs |-> tb]

\* PointForceSource.forward on terms
src_fun(Wd, var, srcval, backpropagate) ==
    InPlace(Wd, var, "src_fun", <<srcval>>, backpropagate)

\* UpdateVelocity.forward on terms
updatev(Wd, cv, backpropagate) ==
    LET sxx_x == Wd.W.sxx
        szz_z == Wd.W.szz
        sxz_x == Wd.W.sxz
        sxz_z == Wd.W.sxz
        Wd1 == InPlace(Wd, "vx", "updatev.vx", <<sxx_x, sxz_z, cv.data>>, backpropagate)
    IN  InPlace(Wd1, "vz", "updatev.vz", <<szz_z, sxz_x, cv.data>>, backpropagate)

\* UpdateStress.forward on terms
updates(Wd, csM, csu, backpropagate) ==
    LET vx_ == Wd.W.vx
        vz_ == Wd.W.vz
        Wd1 == InPlace(Wd, "sxx", "updates.sxx", <<vx_, vz_, csM.data, csu.data>>, backpropagate)
        Wd2 == InPlace(Wd1, "szz", "updates.szz", <<vx_, vz_, csM.data, csu.data>>, backpropagate)
    IN  InPlace(Wd2, "sxz", "updates.sxz", <<vx_, vz_, csu.data>>, backpropagate)

\* Cerjan.forward on terms: every argument is multiplied by the taper
RECURSIVE abs(_, _)
abs(Wd, args) ==
    IF args = <<>> THEN Wd
    ELSE abs(InPlace(Wd, Head(args), "abs", <<>>, FALSE), Tail(args))

\* Receiver.forward on terms: varout[t, :] += var[rec_pos]
rec_fun(Wd, var, varout, tt) ==
    InPlace(Wd, varout, "rec_fun", <<Wd.W[var], tt>>, FALSE)

recover_states_bug(Wd, var, varout, tt) == Wd

\* Receiver.recover_states on terms: varout[t, :] -= var[rec_pos]
recover_states(Wd, var, varout, tt) ==
    InPlace(Wd, varout, "rec_fun", <<Wd.W[var], tt>>, TRUE)

TimestepCalls_bug ==
    << [op |-> "src_fun", args |-> <<"vz">>],
       [op |-> "updates", args |-> <<"vp", "vs", "vx", "vz", "sxx", "szz", "sxz">>],
       [op |-> "abs", args |-> <<"vx", "vz">>],
       [op |-> "updatev", args |-> <<"rho", "vx", "vz", "sxx", "szz", "sxz">>],
       [op |-> "abs", args |-> <<"sxx", "szz", "sxz">>],
       [op |-> "rec_fun", args |-> <<"vz", "vzout">>] >>

\* the body of the loop of elastic2d: the operator calls of one timestep
TimestepCalls ==
    << [op |-> "src_fun", args |-> <<"vz">>],
       [op |-> "updatev", args |-> <<"rho", "vx", "vz", "sxx", "szz", "sxz">>],
       [op |-> "abs", args |-> <<"vx", "vz">>],
       [op |-> "updates", args |-> <<"vp", "vs", "vx", "vz", "sxx", "szz", "sxz">>],
       [op |-> "abs", args |-> <<"sxx", "szz", "sxz">>],
       [op |-> "rec_fun", args |-> <<"vz", "vzout">>] >>

\* the primal state: the arrays of the parameters and the wavefields
Primal(p, w) == [vp |-> p.vp.data, vs |-> p.vs.data, rho |-> p.rho.data, W |-> w]

\* the record phase: the call is appended to the tape
Record(op, args, tt) ==
    /\ tape' = Append(tape, [op |-> op, args |-> args, t |-> tt])
    /\ seen' = Append(seen, Primal(P, W))

InLoop(name) ==
    /\ pc = "loop"
    /\ tidx < Len(signal)
    /\ TimestepCalls[step].op = name
    /\ Record(name, TimestepCalls[step].args, tidx)

Advance ==
    /\ step' = IF step = Len(TimestepCalls) THEN 1 ELSE step + 1
    /\ tidx' = IF step = Len(TimestepCalls) THEN tidx + 1 ELSE tidx
    /\ pc' = "loop"

\* src = np.ones((nt,))
Signals == {[i \in 1 .. n |-> 1] : n \in 0 .. MaxNT}

InitTape ==
    /\ pc = "start"
    /\ P \in {Parameters(seed, 1, z) : seed \in 0 .. 1, z \in BOOLEAN}
    /\ P0 = <<>> /\ P1 = <<>>
    /\ sc = "None"
    /\ dtdx \in {<<1, 3>>, <<3, 1>>}
    /\ W = InitialW
    /\ defs = InitialDefs
    /\ signal \in Signals
    /\ tidx = 0 /\ step = 1
    /\ tape = <<>> /\ seen = <<>> /\ saved = <<>> /\ rk = 0 /\ replayed = <<>>
    /\ EmptyStencil /\ EmptyOps /\ EmptySurf /\ EmptyTaper

\* vp, vs, rho = ScaledParameters(dt, dx)(vp, vs, rho)
ScaleParameters ==
    /\ pc = "start"
    /\ Record("ScaledParameters", <<"vp", "vs", "rho">>, -1)
    /\ LET r == ScaledParameters_forward(P.vp, P.vs, P.rho, sc, dtdx, FALSE)
       IN  /\ P' = [vp |-> r.vp, vs |-> r.vs, rho |-> r.rho]
           /\ sc' = r.sc
    /\ pc' = "loop"
    /\ UNCHANGED <<P0, P1, dtdx, W, defs, signal, tidx, step, saved, rk, replayed, notTapeVars>>

\* src_fun(vz, src[t], src_pos=src_pos)
SourceInjection ==
    /\ InLoop("src_fun")
    /\ LET r == src_fun([W |-> W, defs |-> defs], "vz", signal[tidx + 1], FALSE)
       IN  W' = r.W /\ defs' = r.defs
    /\ Advance
    /\ UNCHANGED <<scaleVars, signal, saved, rk, replayed, notTapeVars>>

\* updatev(rho, vx, vz, sxx, szz, sxz)
VelocityUpdate ==
    /\ InLoop("updatev")
    /\ LET r == updatev([W |-> W, defs |-> defs], P.rho, FALSE)
       IN  W' = r.W /\ defs' = r.defs
    /\ Advance
    /\ UNCHANGED <<scaleVars, signal, saved, rk, replayed, notTapeVars>>

\* abs(vx, vz) and abs(sxx, szz, sxz); the values the taper replaces are kept
Taper ==
    /\ InLoop("abs")
    /\ saved' = Append(saved, [f \in {TimestepCalls[step].args[i] :
                                          i \in 1 .. Len(TimestepCalls[step].args)} |-> W[f]])
    /\ LET r == abs([W |-> W, defs |-> defs], TimestepCalls[step].args)
       IN  W' = r.W /\ defs' = r.defs
    /\ Advance
    /\ UNCHANGED <<scaleVars, signal, rk, replayed, notTapeVars>>

\* updates(vp, vs, vx, vz, sxx, szz, sxz)
StressUpdate ==
    /\ InLoop("updates")
    /\ LET r == updates([W |-> W, defs |-> defs], P.vp, P.vs, FALSE)
       IN  W' = r.W /\ defs' = r.defs
    /\ Advance
    /\ UNCHANGED <<scaleVars, signal, saved, rk, replayed, notTapeVars>>

\* rec_fun(vz, vzout, rec_pos=rec_pos, t=t)
ReceiverSampling ==
    /\ InLoop("rec_fun")
    /\ LET r == rec_fun([W |-> W, defs |-> defs], "vz", "vzout", tidx)
       IN  W' = r.W /\ defs' = r.defs
    /\ Advance
    /\ UNCHANGED <<scaleVars, signal, saved, rk, replayed, notTapeVars>>

\* return vp, vs, rho, vx, vz, sxx, szz, sxz, vzout
Return ==
    /\ pc = "loop"
    /\ tidx = Len(signal)
    /\ pc' = "final"
    /\ UNCHANGED <<scaleVars, tapeVars, notTapeVars>>

\* The gradient replay: the entries of the tape are unwound last to first;
\* for each entry the primal state is restored, then its adjoint is called.
BeginReplay ==
    /\ pc = "final"
    /\ rk' = Len(tape)
    /\ pc' = "restore"
    /\ UNCHANGED <<scaleVars, W, defs, signal, tidx, step, tape, seen, saved, replayed, notTapeVars>>

\* an entry of a ReversibleFunction: forward(..., backpropagate=True)
RestoreByBackpropagation ==
    /\ pc = "restore"
    /\ tape[rk].op \in {"ScaledParameters", "src_fun", "updatev", "updates"}
    /\ IF tape[rk].op = "ScaledParameters"
       THEN /\ LET r == ScaledParameters_forward(P.vp, P.vs, P.rho, sc, dtdx, TRUE)
               IN  /\ P' = [vp |-> r.vp, vs |-> r.vs, rho |-> r.rho]
                   /\ sc' = r.sc
            /\ UNCHANGED <<W, defs>>
       ELSE /\ LET Wd == [W |-> W, defs |-> defs]
                   r == CASE tape[rk].op = "src_fun" ->
                                src_fun(Wd, "vz", signal[tape[rk].t + 1], TRUE)
                          [] tape[rk].op = "updatev" -> updatev(Wd, P.rho, TRUE)
                          [] tape[rk].op = "updates" -> updates(Wd, P.vp, P.vs, TRUE)
               IN  W' = r.W /\ defs' = r.defs
            /\ UNCHANGED <<P, sc>>
    /\ pc' = "adjoint"
    /\ UNCHANGED <<P0, P1, dtdx, signal, tidx, step, tape, seen, saved, rk, replayed, notTapeVars>>

\* an entry of Receiver: recover_states
RestoreReceiver ==
    /\ pc = "restore"
    /\ tape[rk].op = "rec_fun"
    /\ LET r == recover_states([W |-> W, defs |-> defs], "vz", "vzout", tape[rk].t)
       IN  W' = r.W /\ defs' = r.defs
    /\ pc' = "adjoint"
    /\ UNCHANGED <<scaleVars, signal, tidx, step, tape, seen, saved, rk, replayed, notTapeVars>>

\* an entry of Cerjan, which has no inverse: the values kept are put back
RestoreTaper ==
    /\ pc = "restore"
    /\ tape[rk].op = "abs"
    /\ saved # <<>>
    /\ LET kept == saved[Len(saved)]
       IN  W' = [f \in DOMAIN W |-> IF f \in DOMAIN kept THEN kept[f] ELSE W[f]]
    /\ saved' = SubSeq(saved, 1, Len(saved) - 1)
    /\ pc' = "adjoint"
    /\ UNCHANGED <<scaleVars, defs, signal, tidx, step, tape, seen, rk, replayed, notTapeVars>>

\* the adjoint of the entry; it writes grad arrays only
CallAdjoint ==
    /\ pc = "adjoint"
    /\ replayed' = Append(replayed, [k |-> rk, saw |-> Primal(P, W)])
    /\ rk' = rk - 1
    /\ pc' = IF rk = 1 THEN "done" ELSE "restore"
    /\ UNCHANGED <<scaleVars, W, defs, signal, tidx, step, tape, seen, saved, notTapeVars>>

NextTape ==
    \/ ScaleParameters
    \/ SourceInjection
    \/ VelocityUpdate
    \/ Taper
    \/ StressUpdate
    \/ ReceiverSampling
    \/ Return
    \/ BeginReplay
    \/ RestoreByBackpropagation
    \/ RestoreReceiver
    \/ RestoreTaper
    \/ CallAdjoint

SpecTape == InitTape /\ [][NextTape]_vars

\* C8: in one run of elastic2d the calls are ScaledParameters once, before
\* any timestep, then for each of the src.size timesteps, in this order,
\* source injection, velocity update, taper of (vx, vz), stress update, taper
\* of (sxx, szz, sxz) and receiver sampling at time index t; a timestep
\* starts only after the receiver sampling of the one before.
C8_CallOrder ==
    LET body == << [op |-> "src_fun", args |-> <<"vz">>],
                   [op |-> "updatev", args |-> <<"rho", "vx", "vz", "sxx", "szz", "sxz">>],
                   [op |-> "abs", args |-> <<"vx", "vz">>],
                   [op |-> "updates", args |-> <<"vp", "vs", "vx", "vz", "sxx", "szz", "sxz">>],
                   [op |-> "abs", args |-> <<"sxx", "szz", "sxz">>],
                   [op |-> "rec_fun", args |-> <<"vz", "vzout">>] >>
        expected(i) ==
            IF i = 1
            THEN [op |-> "ScaledParameters", args |-> <<"vp", "vs", "rho">>, t |-> -1]
            ELSE [op |-> body[((i - 2) % 6) + 1].op,
                  args |-> body[((i - 2) % 6) + 1].args,
                  t |-> (i - 2) \div 6]
    IN  /\ Len(tape) <= 1 + 6 * Len(signal)
        /\ \A i \in 1 .. Len(tape) : tape[i] = expected(i)
        /\ pc \in {"final", "restore", "adjoint", "done"} => Len(tape) = 1 + 6 * Len(signal)
        /\ pc = "loop" => Len(tape) = 1 + 6 * tidx + (step - 1)

C8_Witness ==
    /\ pc = "final"
    /\ Len(signal) >= 2
    /\ Len(tape) = 1 + 6 * Len(signal)
    /\ tape[Len(tape)] = [op |-> "rec_fun", args |-> <<"vz", "vzout">>, t |-> Len(signal) - 1]

\* the entries are unwound last to first, each once
ReverseOrder ==
    /\ Len(replayed) <= Len(tape)
    /\ \A j \in 1 .. Len(replayed) : replayed[j].k = Len(tape) + 1 - j
    /\ pc = "done" => Len(replayed) = Len(tape)

\* C9 as claimed: in the replay the recorded calls are unwound once each,
\* last to first, and the adjoint of each sees the primal values its
\* forward call saw, in every cell.
C9_AdjointSeesForwardState ==
    /\ ReverseOrder
    /\ \A j \in 1 .. Len(replayed) : replayed[j].saw = seen[replayed[j].k]

\* C9 (amended): in the replay the recorded calls are unwound once each,
\* last to first, each restored before its adjoint is called; the adjoint
\* sees the wavefields and rho as its forward call saw them, and vp and vs
\* as it saw them in every valid cell; the adjoint of ScaledParameters sees
\* each halo cell of vp and vs holding its original value squared times rho.
C9_AdjointSeesValidForwardState ==
    /\ ReverseOrder
    /\ \A j \in 1 .. Len(replayed) :
        LET saw == replayed[j].saw
            was == seen[replayed[j].k]
        IN  /\ saw.W = was.W
            /\ saw.rho = was.rho
            /\ \A r \in 0 .. GR - 1 : \A c \in 0 .. GC - 1 :
                IF IsValid(saw.vp, r, c) \/ tape[replayed[j].k].op # "ScaledParameters"
                THEN saw.vp[r][c] = was.vp[r][c] /\ saw.vs[r][c] = was.vs[r][c]
                ELSE /\ saw.vp[r][c] = SquareTimes(was.vp, was.rho)[r][c]
                     /\ saw.vs[r][c] = SquareTimes(was.vs, was.rho)[r][c]

C9_Witness ==
    /\ pc = "done"
    /\ Len(signal) >= 2
    /\ Len(replayed) = 1 + 6 * Len(signal)
    /\ replayed[1].k = Len(tape) /\ replayed[Len(replayed)].k = 1
    /\ replayed[Len(replayed)].saw # seen[1]
    /\ replayed[Len(replayed)].saw.W = InitialW
    /\ Len(defs) > 6 * Len(signal)

\* --------------------------------------------------------------- Cerjan
\* self.taper[k] = exp(log(1 - abpc / 100) / nab ** 2 * k ** 2) = tau ^ (k * k),
\* with tau = (1 - abpc / 100) ^ (1 / nab ** 2), a number strictly between
\* 0 and 1.  A cell of an array given to Cerjan is a pair <<a, e>> standing
\* for a * tau ^ e: two cells with a # 0 are equal exactly when a and e are.
taper(n) == [k \in 1 .. n |-> (k - 1) * (k - 1)]

\* seq[::-1]
Reversed(seq) == [k \in 1 .. Len(seq) |-> seq[Len(seq) + 1 - k]]

\* x * tau ^ e
TimesTau(x, e) == IF x[1] = 0 THEN x ELSE <<x[1], x[2] + e>>

\* d[lo:lo+n, :] *= profile
ScaleRows(d, lo, profile) ==
    [r \in Rows(d) |-> [c \in Cols(d) |->
        IF r >= lo /\ r < lo + Len(profile)
        THEN TimesTau(d[r][c], profile[r - lo + 1]) ELSE d[r][c]]]

\* d[:, lo:lo+n] *= np.transpose(profile)
ScaleCols(d, lo, profile) ==
    [r \in Rows(d) |-> [c \in Cols(d) |->
        IF c >= lo /\ c < lo + Len(profile)
        THEN TimesTau(d[r][c], profile[c - lo + 1]) ELSE d[r][c]]]

Tapered_bug(d, n, fs) ==
    LET d1 == ScaleRows(d, Pad, Reversed(taper(n)))
        d2 == ScaleRows(d1, NRows(d) - n - Pad, taper(n))
        d3 == ScaleCols(d2, Pad, Reversed(taper(n)))
    IN  ScaleCols(d3, NCols(d) - n - Pad, taper(n))

\* the body of the loop of Cerjan.forward, for one array d
Tapered(d, n, fs) ==
    LET d1 == IF ~fs THEN ScaleRows(d, Pad, Reversed(taper(n))) ELSE d
        d2 == ScaleRows(d1, NRows(d) - n - Pad, taper(n))
        d3 == ScaleCols(d2, Pad, Reversed(taper(n)))
    IN  ScaleCols(d3, NCols(d) - n - Pad, taper(n))

Cerjan_forward_bug(args, kwargs, n, fs) ==
    LET direction == IF "direction" \in DOMAIN kwargs THEN kwargs.direction ELSE "data"
    IN  [raised |-> "none",
         args |-> [i \in 1 .. Len(args) |->
                     [args[i] EXCEPT ![direction] = Tapered(@, n, fs)]]]

\* Cerjan.forward(*args, direction="data"): any other keyword is a TypeError
\* of the call, raised before the body runs
Cerjan_forward(args, kwargs, n, fs) ==
    LET direction == IF "direction" \in DOMAIN kwargs THEN kwargs.direction ELSE "data"
    IN  IF ~(DOMAIN kwargs \subseteq {"direction"})
        THEN [raised |-> "TypeError", args |-> args]
        ELSE [raised |-> "none",
              args |-> [i \in 1 .. Len(args) |->
                          [args[i] EXCEPT ![direction] = Tapered(@, n, fs)]]]

Cerjan_linear_bug(args, n, fs) == Cerjan_forward(args, [direction |-> "data"], n, fs)

\* Cerjan.linear
Cerjan_linear(args, n, fs) == Cerjan_forward(args, [direction |-> "lin"], n, fs)

Cerjan_adjoint_bug(args, n, fs) ==
    [raised |-> "none",
     args |-> [i \in 1 .. Len(args) |->
                 [args[i] EXCEPT !.grad = ScaleRows(Tapered(@, n, fs), Pad, taper(n))]]]

\* Cerjan.adjoint
Cerjan_adjoint(args, n, fs) == Cerjan_forward(args, [direction |-> "grad"], n, fs)

\* a dense array with no zero cell, all exponents of tau zero
NonZero(R, C, k) ==
    [r \in 0 .. R - 1 |-> [c \in 0 .. C - 1 |->
        <<IF Pattern(R, C, k)[r][c] = 0 THEN 3 ELSE Pattern(R, C, k)[r][c], 0>>]]

\* the Variables vx, vz of test_Cerjan, for an interior of R by C cells
TaperFields(R, C) ==
    << Variable(NonZero(R + 2 * Pad, C + 2 * Pad, 0), NonZero(R + 2 * Pad, C + 2 * Pad, 1),
                NonZero(R + 2 * Pad, C + 2 * Pad, 2)),
       Variable(NonZero(R + 2 * Pad, C + 2 * Pad, 3), NonZero(R + 2 * Pad, C + 2 * Pad, 4),
                NonZero(R + 2 * Pad, C + 2 * Pad, 5)) >>

\* interiors narrower and wider than the two bands of a side together
TaperShapes == {<<NZ, NX>>, <<NZ + 3, NX + 3>>, <<NZ + 3, NX>>}

InitTaper ==
    /\ pc = "taper"
    /\ T \in {TaperFields(sh[1], sh[2]) : sh \in TaperShapes}
    /\ T0 = T
    /\ nab \in 1 .. 2
    /\ freesurf \in BOOLEAN
    /\ tlog = <<>>
    /\ EmptyStencil /\ EmptyOps /\ EmptySurf /\ EmptyScale /\ EmptyTape

CerjanCall(name, r) ==
    /\ pc = "taper"
    /\ Len(tlog) < MaxCalls
    /\ T' = r.args
    /\ tlog' = Append(tlog, name)
    /\ pc' = IF r.raised = "none" THEN "taper" ELSE r.raised
    /\ UNCHANGED <<T0, nab, freesurf, stencilVars, opsVars, surfVars, scaleVars, tapeVars>>

CerjanForward == CerjanCall("forward", Cerjan_forward(T, <<>>, nab, freesurf))

CerjanBackpropagate ==
    CerjanCall("backpropagate", Cerjan_forward(T, [backpropagate |-> TRUE], nab, freesurf))

CerjanLinear == CerjanCall("linear", Cerjan_linear(T, nab, freesurf))

CerjanAdjoint == CerjanCall("adjoint", Cerjan_adjoint(T, nab, freesurf))

NextTaper == CerjanForward \/ CerjanBackpropagate \/ CerjanLinear \/ CerjanAdjoint

SpecTaper == InitTaper /\ [][NextTaper]_vars

\* the number of calls of one kind made so far
Count(name) == Cardinality({i \in 1 .. Len(tlog) : tlog[i] = name})

\* C12: forward, linear and adjoint multiply data, lin and grad of every
\* argument by the same factor in each cell (after n_f, n_l and n_a calls
\* the powers of tau are in the ratio n_f : n_l : n_a), and no call touches
\* the other two arrays.
C12_SameDiagonalScaling ==
    \A i \in 1 .. Len(T) : \A r \in Rows(T[i].data) : \A c \in Cols(T[i].data) :
        LET d == T[i].data[r][c]
            l == T[i].lin[r][c]
            g == T[i].grad[r][c]
        IN  /\ d[1] = T0[i].data[r][c][1]
            /\ l[1] = T0[i].lin[r][c][1]
            /\ g[1] = T0[i].grad[r][c][1]
            /\ d[2] * Count("linear") = l[2] * Count("forward")
            /\ d[2] * Count("adjoint") = g[2] * Count("forward")
            /\ l[2] * Count("adjoint") = g[2] * Count("linear")

C12_Witness ==
    /\ nab = 2
    /\ Count("forward") = 1 /\ Count("linear") = 2 /\ Count("adjoint") = 1
    /\ \E r \in Rows(T[1].data) : \E c \in Cols(T[1].data) :
        /\ T[1].data[r][c][2] > 0
        /\ T[1].lin[r][c][2] = 2 * T[1].data[r][c][2]
        /\ T[1].grad[r][c][2] = T[1].data[r][c][2]

\* C13 as claimed: forward and then forward with backpropagate=True
\* restore the data arrays of the fields.
C13_TaperSelfInverse ==
    tlog = <<"forward", "backpropagate">> =>
        \A i \in 1 .. Len(T) : T[i].data = T0[i].data

\* C13 (amended): Cerjan.forward takes no backpropagate argument; forward
\* and then forward with backpropagate=True raise TypeError, and the arrays
\* stay as the first call left them.
C13_BackpropagateIsTypeError ==
    tlog = <<"forward", "backpropagate">> =>
        /\ pc = "TypeError"
        /\ T = Cerjan_forward(T0, <<>>, nab, freesurf).args

C13_Witness ==
    /\ tlog = <<"forward", "backpropagate">>
    /\ pc = "TypeError"
    /\ nab = 2
    /\ T[1].data # T0[1].data
    /\ T[1].lin = T0[1].lin

\* the power of tau a band gives a cell dist cells inside its edge
Band(dist) == IF dist < nab THEN (nab - 1 - dist) * (nab - 1 - dist) ELSE 0

\* C14: one forward scales the band of nab interior cells along the top
\* (unless freesurf), bottom, left and right edges, by the taper profile,
\* strongest at the edge; an interior cell nab or more cells inside every
\* tapered edge is unchanged.
C14_TaperBands ==
    tlog = <<"forward">> =>
        \A i \in 1 .. Len(T) : \A r \in Rows(T[i].data) : \A c \in Cols(T[i].data) :
            IsValid(T[i].data, r, c) =>
                LET R == NRows(T[i].data)
                    C == NCols(T[i].data)
                    top == IF freesurf THEN 0 ELSE Band(r - Pad)
                    e == top + Band(R - Pad - 1 - r) + Band(c - Pad) + Band(C - Pad - 1 - c)
                IN  /\ T[i].data[r][c] = <<T0[i].data[r][c][1], e>>
                    /\ (/\ (freesurf \/ r - Pad >= nab) /\ R - Pad - 1 - r >= nab
                        /\ c - Pad >= nab /\ C - Pad - 1 - c >= nab)
                            => T[i].data[r][c] = T0[i].data[r][c]

C14_Witness ==
    /\ tlog = <<"forward">> /\ freesurf /\ nab = 2
    /\ NRows(T[1].data) = NZ + 3 + 2 * Pad /\ NCols(T[1].data) = NX + 3 + 2 * Pad
    /\ T[1].data[Pad][Pad + 2] = T0[1].data[Pad][Pad + 2]
    /\ T[1].data[NZ + 2 + Pad][Pad + 2][2] = 1
    /\ T[1].data[Pad + 2][Pad][2] = 1
    /\ T[1].data[Pad + 2][Pad + 2] = T0[1].data[Pad + 2][Pad + 2]

\* C15: two adjoint calls multiply each grad cell by the square of the
\* factor one forward call gives the same cell of a data array.
C15_AdjointTwiceIsSquare ==
    tlog = <<"adjoint", "adjoint">> =>
        \A i \in 1 .. Len(T) : \A r \in Rows(T[i].data) : \A c \in Cols(T[i].data) :
            LET once == Cerjan_forward(T0, <<>>, nab, freesurf).args[i].data[r][c]
            IN  /\ T[i].grad[r][c][1] = T0[i].grad[r][c][1]
                /\ T[i].grad[r][c][2] = 2 * (once[2] - T0[i].data[r][c][2])

C15_Witness ==
    /\ tlog = <<"adjoint", "adjoint">> /\ nab = 2
    /\ \E r \in Rows(T[1].grad) : \E c \in Cols(T[1].grad) : T[1].grad[r][c][2] = 4
    /\ T[1].data = T0[1].data

\* ------------------------------------------- PointForceSource, Receiver
\* PointForceSource.adjoint: the call returns var
PointForceSource_adjoint(var, src, src_pos) == var

\* for ii, r in enumerate(rec_pos): out[t, ii] += sign * arr[r]
RECURSIVE Sampled(_, _, _, _, _, _)
Sampled(out, arr, rec_pos, tt, ii, sign) ==
    IF ii >= Len(rec_pos) THEN out
    ELSE Sampled([out EXCEPT ![tt][ii] = @ + sign * arr[rec_pos[ii + 1][1]][rec_pos[ii + 1][2]]],
                 arr, rec_pos, tt, ii + 1, sign)

\* for ii, r in enumerate(rec_pos): arr[r] += out[t, ii]
RECURSIVE Scattered(_, _, _, _, _)
Scattered(arr, out, rec_pos, tt, ii) ==
    IF ii >= Len(rec_pos) THEN arr
    ELSE Scattered([arr EXCEPT ![rec_pos[ii + 1][1]][rec_pos[ii + 1][2]] = @ + out[tt][ii]],
                   out, rec_pos, tt, ii + 1)

Receiver_forward_bug(var, varout, rec_pos, tt) ==
    [varout EXCEPT !.data = Sampled(@, var.data, rec_pos, 0, 0, 1)]

\* Receiver.forward; the call returns varout
Receiver_forward(var, varout, rec_pos, tt) ==
    [varout EXCEPT !.data = Sampled(@, var.data, rec_pos, tt, 0, 1)]

\* Receiver.linear; the call returns varout
Receiver_linear(var, varout, rec_pos, tt) ==
    [varout EXCEPT !.lin = Sampled(@, var.lin, rec_pos, tt, 0, 1)]

Receiver_adjoint_bug(var, varout, rec_pos, tt) ==
    [var EXCEPT !.grad = Scattered(@, varout.grad, Reversed(rec_pos), tt, 0)]

\* Receiver.adjoint; the call returns var
Receiver_adjoint(var, varout, rec_pos, tt) ==
    [var EXCEPT !.grad = Scattered(@, varout.grad, rec_pos, tt, 0)]

\* Receiver.recover_states; the call returns varout
Receiver_recover_states(var, varout, rec_pos, tt) ==
    [varout EXCEPT !.data = Sampled(@, var.data, rec_pos, tt, 0, -1)]

\* vx, vz and the output vxout of test_Receiver: one row per time index,
\* one column per receiver
PointFields(seed) ==
    [vx |-> Variable(Pattern(GR, GC, seed), Pattern(GR, GC, seed + 1), Pattern(GR, GC, seed + 2)),
     vz |-> Variable(Pattern(GR, GC, seed + 3), Pattern(GR, GC, seed + 4), Pattern(GR, GC, seed)),
     vxout |-> Variable(Pattern(MaxNT, 2, seed + 1), Pattern(MaxNT, 2, seed + 2),
                        Pattern(MaxNT, 2, seed + 3))]

\* rec_pos: two receivers, one receiver, the same cell twice
RecPositions == {<< <<2, 2>>, <<3, 3>> >>, << <<2, 3>> >>, << <<3, 2>>, <<3, 2>> >>}

InitPoint ==
    /\ pc = "ready"
    /\ F \in {PointFields(seed) : seed \in 0 .. MaxAmp}
    /\ F0 = F
    /\ F1 = <<>>
    /\ call = [op |-> "none"]
    /\ EmptyStencil /\ EmptySurf /\ EmptyScale /\ EmptyTape /\ EmptyTaper

PointForceSourceAdjoint ==
    /\ pc = "ready"
    /\ \E var \in {"vx", "vz"}, src \in Amps, src_pos \in SrcPositions :
        LET ret == PointForceSource_adjoint(F[var], src, src_pos)
        IN  /\ F' = [F EXCEPT ![var] = ret]
            /\ call' = [op |-> "PointForceSource", var |-> var, src |-> src,
                        src_pos |-> src_pos, ret |-> [type |-> "Variable", value |-> ret]]
    /\ pc' = "adj"
    /\ UNCHANGED <<F0, F1, notOpsVars>>

ReceiverForward ==
    /\ pc = "ready"
    /\ \E rec_pos \in RecPositions, tt \in 0 .. MaxNT - 1 :
        /\ F' = [F EXCEPT !.vxout = Receiver_forward(F.vx, F.vxout, rec_pos, tt)]
        /\ call' = [op |-> "Receiver", rec_pos |-> rec_pos, t |-> tt]
    /\ F1' = F'
    /\ pc' = "fwd"
    /\ UNCHANGED <<F0, notOpsVars>>

ReceiverRecoverStates ==
    /\ pc = "fwd" /\ call.op = "Receiver"
    /\ F' = [F EXCEPT !.vxout = Receiver_recover_states(F.vx, F.vxout, call.rec_pos, call.t)]
    /\ pc' = "restored"
    /\ UNCHANGED <<F0, F1, call, notOpsVars>>

ReceiverLinear ==
    /\ pc = "ready"
    /\ \E rec_pos \in RecPositions, tt \in 0 .. MaxNT - 1 :
        /\ F' = [F EXCEPT !.vxout = Receiver_linear(F.vx, F.vxout, rec_pos, tt)]
        /\ call' = [op |-> "Receiver", rec_pos |-> rec_pos, t |-> tt]
    /\ pc' = "lin"
    /\ UNCHANGED <<F0, F1, notOpsVars>>

ReceiverAdjoint ==
    /\ pc = "ready"
    /\ \E rec_pos \in RecPositions, tt \in 0 .. MaxNT - 1 :
        /\ F' = [F EXCEPT !.vx = Receiver_adjoint(F.vx, F.vxout, rec_pos, tt)]
        /\ call' = [op |-> "Receiver", rec_pos |-> rec_pos, t |-> tt]
    /\ pc' = "adj"
    /\ UNCHANGED <<F0, F1, notOpsVars>>

NextPoint ==
    \/ PointForceSourceForward \/ PointForceSourceBackpropagate \/ PointForceSourceAdjoint
    \/ ReceiverForward \/ ReceiverRecoverStates \/ ReceiverLinear \/ ReceiverAdjoint

SpecPoint == InitPoint /\ [][NextPoint]_vars

\* how many entries of src_pos select the cell
Hits(src_pos, r, c) == Cardinality({i \in 1 .. Len(src_pos) : Selects(src_pos[i], r, c)})

\* forward adds src at each position of src_pos and changes nothing else
SourceAddsAtPositions ==
    (pc = "fwd" /\ call.op = "PointForceSource") =>
        \A f \in DOMAIN F :
            IF f = call.var
            THEN /\ F[f].lin = F0[f].lin /\ F[f].grad = F0[f].grad
                 /\ \A r \in Rows(F[f].data) : \A c \in Cols(F[f].data) :
                        F[f].data[r][c] =
                            F0[f].data[r][c] + call.src * Hits(call.src_pos, r, c)
            ELSE F[f] = F0[f]

\* C16 as claimed: forward adds src at each position of src_pos and changes
\* no other cell; adjoint gathers the gradient of the target at those
\* positions, unscaled, and leaves the gradient unchanged.
C16_AdjointGathers ==
    /\ SourceAddsAtPositions
    /\ (pc = "adj" /\ call.op = "PointForceSource") =>
        /\ F = F0
        /\ call.ret.type = "values"
        /\ call.ret.value = [i \in 1 .. Len(call.src_pos) |->
                                IF Len(call.src_pos[i]) = 1
                                THEN F0[call.var].grad[call.src_pos[i][1]]
                                ELSE F0[call.var].grad[call.src_pos[i][1]][call.src_pos[i][2]]]

\* C16 (amended): forward adds src at each position of src_pos and changes
\* no other cell; adjoint gathers nothing: it returns the target field as
\* it is and changes no array.
C16_AdjointReturnsField ==
    /\ SourceAddsAtPositions
    /\ (pc = "adj" /\ call.op = "PointForceSource") =>
        /\ F = F0
        /\ call.ret.type = "Variable"
        /\ call.ret.value = F0[call.var]

C16_Witness ==
    /\ pc = "adj" /\ call.op = "PointForceSource"
    /\ call.src_pos = << <<2, 3>>, <<2, 3>> >>
    /\ F0[call.var].grad[2][3] # 0
    /\ call.ret.value.grad = F0[call.var].grad

\* C17 as claimed: after forward, varout.data[t, ii] equals var.data at
\* rec_pos[ii] for every ii, and no row of another time index is changed.
C17_ReceiverCopies ==
    (pc = "fwd" /\ call.op = "Receiver") =>
        /\ \A ii \in 0 .. Len(call.rec_pos) - 1 :
            F.vxout.data[call.t][ii] =
                F.vx.data[call.rec_pos[ii + 1][1]][call.rec_pos[ii + 1][2]]
        /\ \A tt \in Rows(F.vxout.data) : tt # call.t => F.vxout.data[tt] = F0.vxout.data[tt]

\* C17 (amended): forward adds var.data at rec_pos[ii] to varout.data[t, ii]
\* for every ii, the cell keeping what it held before, and changes no row of
\* another time index.
C17_ReceiverAccumulates ==
    (pc = "fwd" /\ call.op = "Receiver") =>
        /\ \A ii \in 0 .. Len(call.rec_pos) - 1 :
            F.vxout.data[call.t][ii] =
                F0.vxout.data[call.t][ii]
                    + F0.vx.data[call.rec_pos[ii + 1][1]][call.rec_pos[ii + 1][2]]
        /\ \A tt \in Rows(F.vxout.data) : tt # call.t => F.vxout.data[tt] = F0.vxout.data[tt]
        /\ F.vx = F0.vx /\ F.vxout.lin = F0.vxout.lin /\ F.vxout.grad = F0.vxout.grad

C17_Witness ==
    /\ pc = "fwd" /\ call.op = "Receiver" /\ call.t > 0
    /\ F0.vxout.data[call.t][0] # 0
    /\ F0.vx.data[call.rec_pos[1][1]][call.rec_pos[1][2]] # 0
    /\ F.vxout.data[call.t][0] # F0.vxout.data[call.t][0]

\* C18: forward and then recover_states, with var, rec_pos and t the same,
\* restore varout.data; adjoint adds varout.grad[t, ii] to var.grad at
\* rec_pos[ii] for every ii and leaves varout.grad unchanged.
C18_ReceiverRecoverAndScatter ==
    /\ (pc = "restored" /\ call.op = "Receiver") => F = F0
    /\ (pc = "adj" /\ call.op = "Receiver") =>
        /\ F.vxout = F0.vxout
        /\ F.vx.data = F0.vx.data /\ F.vx.lin = F0.vx.lin
        /\ \A r \in Rows(F.vx.grad) : \A c \in Cols(F.vx.grad) :
            LET part(ii) == IF ii < Len(call.rec_pos) /\ call.rec_pos[ii + 1] = <<r, c>>
                            THEN F0.vxout.grad[call.t][ii] ELSE 0
            IN  F.vx.grad[r][c] = F0.vx.grad[r][c] + part(0) + part(1)

C18_Witness ==
    /\ pc = "adj" /\ call.op = "Receiver"
    /\ Len(call.rec_pos) = 2 /\ call.rec_pos[1] # call.rec_pos[2]
    /\ F0.vxout.grad[call.t][0] # F0.vxout.grad[call.t][1]
    /\ F.vx.grad # F0.vx.grad

\* ------------------------------------------------------ the adjoint pass
\* a[pad+1:2*pad+1, :] += -a[:pad, :][::-1, :]
FoldHalo(a) ==
    [r \in Rows(a) |-> [c \in Cols(a) |->
        IF r > Pad /\ r <= 2 * Pad THEN a[r][c] - a[2 * Pad - r][c] ELSE a[r][c]]]

\* a[:pad, :] = 0
ZeroHaloRows(a) ==
    [r \in Rows(a) |-> [c \in Cols(a) |-> IF r < Pad THEN 0 ELSE a[r][c]]]

\* z = np.zeros_like(h); z[pad:pad+1, pad:-pad] = h[pad:pad+1, pad:-pad]
SurfaceRow(h) ==
    [r \in Rows(h) |-> [c \in Cols(h) |->
        IF r = Pad /\ IsValid(h, r, c) THEN h[r][c] ELSE 0]]

\* a[:2*pad, :] += d[:2*pad, :]
AddTopRows(a, d) ==
    [r \in Rows(a) |-> [c \in Cols(a) |->
        IF r < 2 * Pad THEN a[r][c] + d[r][c] ELSE a[r][c]]]

\* a[pad:pad+1, pad:-pad] += d, for a row d of the interior's width
AddSurfaceRow(a, d) ==
    [r \in Rows(a) |-> [c \in Cols(a) |->
        IF r = Pad /\ IsValid(a, r, c) THEN a[r][c] + d[c - Pad] ELSE a[r][c]]]

FreeSurface_adjoint_bug(adj_states, states) ==
    LET f0(r, c) == states.csu[r][c] * 2
        g0(r, c) == states.csM[r][c]
        hx == [r \in Rows(states.csu) |-> [c \in Cols(states.csu) |->
                IF g0(r, c) = 0 THEN "inf or nan"
                ELSE -Quot((g0(r, c) - f0(r, c)) * (g0(r, c) - f0(r, c)), g0(r, c))]]
        hz == [r \in Rows(states.csu) |-> [c \in Cols(states.csu) |->
                -(g0(r, c) - f0(r, c))]]
        hx0 == SurfaceRow(hx)
        hz0 == SurfaceRow(hz)
        adj_sxx_x == Dmx_adj(Times(hx0, adj_states.sxx))
        adj_sxx_z == Dmz_adj(Times(hz0, adj_states.sxx))
        vxx == Dmx(states.vx)[0]
        vzz == Dmz(states.vz)[0]
        dM == [j \in DOMAIN vxx |->
                LET f == states.csu[Pad][j + Pad] * 2
                    g == states.csM[Pad][j + Pad]
                IN  (Quot(-2 * (g - f) * vxx[j], g) + Quot((g - f) * (g - f) * vxx[j], g * g)
                        - vzz[j]) * adj_states.sxx[Pad][j + Pad]]
        du == [j \in DOMAIN vxx |->
                LET f == states.csu[Pad][j + Pad] * 2
                    g == states.csM[Pad][j + Pad]
                IN  (Quot(2 * (g - f) * vxx[j], g) + vzz[j]) * adj_states.sxx[Pad][j + Pad]]
    IN  [adj_states EXCEPT
            !.szz = ZeroHaloRows(FoldHalo(ZeroRowPad(@))),
            !.sxz = ZeroHaloRows(FoldHalo(@)),
            !.vx = AddTopRows(@, adj_sxx_x),
            !.vz = AddTopRows(@, adj_sxx_z),
            !.csM = AddSurfaceRow(@, dM),
            !.csu = AddSurfaceRow(@, du)]

\* FreeSurface.adjoint
FreeSurface_adjoint(adj_states, states) ==
    LET f0(r, c) == states.csu[r][c] * 2
        g0(r, c) == states.csM[r][c]
        hx == [r \in Rows(states.csu) |-> [c \in Cols(states.csu) |->
                IF g0(r, c) = 0 THEN "inf or nan"
                ELSE -Quot((g0(r, c) - f0(r, c)) * (g0(r, c) - f0(r, c)), g0(r, c))]]
        hz == [r \in Rows(states.csu) |-> [c \in Cols(states.csu) |->
                -(g0(r, c) - f0(r, c))]]
        hx0 == SurfaceRow(hx)
        hz0 == SurfaceRow(hz)
        adj_sxx_x == Dmx_adj(Times(hx0, adj_states.sxx))
        adj_sxx_z == Dmz_adj(Times(hz0, adj_states.sxx))
        vxx == Dmx(states.vx)[0]
        vzz == Dmz(states.vz)[0]
        dM == [j \in DOMAIN vxx |->
                LET f == states.csu[Pad][j + Pad] * 2
                    g == states.csM[Pad][j + Pad]
                IN  (Quot(-2 * (g - f) * vxx[j], g) + Quot((g - f) * (g - f) * vxx[j], g * g)
                        - vzz[j]) * adj_states.sxx[Pad][j + Pad]]
        du == [j \in DOMAIN vxx |->
                LET f == states.csu[Pad][j + Pad] * 2
                    g == states.csM[Pad][j + Pad]
                IN  2 * (Quot(2 * (g - f) * vxx[j], g) + vzz[j]) * adj_states.sxx[Pad][j + Pad]]
    IN  [adj_states EXCEPT
            !.szz = ZeroHaloRows(FoldHalo(ZeroRowPad(@))),
            !.sxz = ZeroHaloRows(FoldHalo(@)),
            !.vx = AddTopRows(@, adj_sxx_x),
            !.vz = AddTopRows(@, adj_sxx_z),
            !.csM = AddSurfaceRow(@, dM),
            !.csu = AddSurfaceRow(@, du)]

\* One adjoint call of each operator of the propagator, as the replay makes
\* it: the primal state is the one the call sees, the gradients hold what the
\* calls replayed before it left there.
Operators == {"UpdateVelocity", "UpdateStress", "PointForceSource", "Receiver",
              "Cerjan", "ScaledParameters", "FreeSurface"}

\* the Variables an adjoint call of op is made on
AdjointFields(op, seed, gseed) ==
    CASE op \in {"UpdateVelocity", "UpdateStress"} ->
            [f \in FieldNames |->
                Variable(Pattern(GR, GC, FieldIndex[f] + seed), Zeros(GR, GC),
                         Pattern(GR, GC, FieldIndex[f] + gseed))]
      [] op \in {"PointForceSource", "Receiver"} -> PointFields(seed + gseed)
      [] op = "Cerjan" -> TaperFields(NZ + seed, NX + gseed)
      [] op = "FreeSurface" ->
            [f \in DOMAIN SurfaceStates(seed) |->
                Variable(SurfaceStates(seed)[f], Zeros(GR, GC),
                         Pattern(GR, GC, FieldIndex[f] + gseed))]

\* the adjoint call c on the Variables Fs
adjoint(c, Fs) ==
    CASE c.op = "UpdateVelocity" ->
            Updated(Fs, UpdateVelocity_adjoint(Fs.cv, Fs.vx, Fs.vz, Fs.sxx, Fs.szz, Fs.sxz))
      [] c.op = "UpdateStress" ->
            Updated(Fs, UpdateStress_adjoint(Fs.csM, Fs.csu, Fs.vx, Fs.vz,
                                             Fs.sxx, Fs.szz, Fs.sxz))
      [] c.op = "PointForceSource" ->
            [Fs EXCEPT ![c.var] = PointForceSource_adjoint(@, c.src, c.src_pos)]
      [] c.op = "Receiver" ->
            [Fs EXCEPT !.vx = Receiver_adjoint(@, Fs.vxout, c.rec_pos, c.t)]
      [] c.op = "Cerjan" -> Cerjan_adjoint(Fs, c.nab, c.freesurf).args
      [] c.op = "ScaledParameters" ->
            LET r == ScaledParameters_adjoint(Fs.vp, Fs.vs, Fs.rho, c.sc, c.dtdx)
            IN  [vp |-> r.vp, vs |-> r.vs, rho |-> r.rho]
      [] c.op = "FreeSurface" ->
            LET adj == FreeSurface_adjoint([f \in DOMAIN Fs |-> Fs[f].grad],
                                           [f \in DOMAIN Fs |-> Fs[f].data])
            IN  [f \in DOMAIN Fs |-> [Fs[f] EXCEPT !.grad = adj[f]]]

InitAdjoint ==
    /\ pc = "pass"
    /\ \E op \in Operators :
        \/ /\ op \notin {"ScaledParameters", "Cerjan"}
           /\ call = [op |-> op]
           /\ F \in {AdjointFields(op, seed, gseed) : seed \in 0 .. MaxAmp, gseed \in 0 .. MaxAmp}
        \/ /\ op = "Cerjan"
           /\ \E n \in 1 .. 2, fs \in BOOLEAN : call = [op |-> op, nab |-> n, freesurf |-> fs]
           /\ F \in {AdjointFields(op, seed, gseed) : seed \in 0 .. 1, gseed \in 0 .. 1}
        \/ /\ op = "ScaledParameters"
           /\ \E seed \in 0 .. MaxAmp, rseed \in 0 .. MaxAmp, z \in BOOLEAN, k \in TimeSteps :
                LET p == Parameters(seed, rseed, z)
                    r == ScaledParameters_forward(p.vp, p.vs, p.rho, "None", k, FALSE)
                IN  /\ call = [op |-> op, sc |-> r.sc, dtdx |-> k]
                    /\ F = [vp |-> r.vp, vs |-> r.vs, rho |-> r.rho]
    /\ F0 = F
    /\ F1 = <<>>
    /\ EmptyStencil /\ EmptySurf /\ EmptyScale /\ EmptyTape /\ EmptyTaper

\* the call c made on F
AdjointCall(c) ==
    /\ pc = "pass"
    /\ call.op = c.op
    /\ call' = c
    /\ F' = adjoint(c, F)
    /\ pc' = "done"
    /\ UNCHANGED <<F0, F1, notOpsVars>>

AdjointOfUpdateVelocity == AdjointCall([op |-> "UpdateVelocity"])

AdjointOfUpdateStress == AdjointCall([op |-> "UpdateStress"])

AdjointOfPointForceSource ==
    \E v \in {"vx", "vz"}, amp \in Amps, sp \in SrcPositions :
        AdjointCall([op |-> "PointForceSource", var |-> v, src |-> amp, src_pos |-> sp])

AdjointOfReceiver ==
    \E rp \in RecPositions, tt \in 0 .. MaxNT - 1 :
        AdjointCall([op |-> "Receiver", rec_pos |-> rp, t |-> tt])

AdjointOfCerjan == call.op = "Cerjan" /\ AdjointCall(call)

AdjointOfScaledParameters == call.op = "ScaledParameters" /\ AdjointCall(call)

AdjointOfFreeSurface == AdjointCall([op |-> "FreeSurface"])

NextAdjoint ==
    \/ AdjointOfUpdateVelocity \/ AdjointOfUpdateStress
    \/ AdjointOfPointForceSource \/ AdjointOfReceiver
    \/ AdjointOfCerjan \/ AdjointOfScaledParameters \/ AdjointOfFreeSurface

SpecAdjoint == InitAdjoint /\ [][NextAdjoint]_vars

\* a zero of the arithmetic the arrays of the call c are held in
ZeroCell(c) ==
    CASE c.op = "Cerjan" -> <<0, 0>>
      [] c.op = "ScaledParameters" -> <<0, 1>>
      [] OTHER -> 0

\* x + y in that arithmetic (of a * tau^e, only sums of like powers and sums
\* with zero)
CellSum(c, x, y) ==
    CASE c.op = "Cerjan" ->
            (CASE y[1] = 0 -> x [] x[1] = 0 -> y [] x[2] = y[2] -> <<x[1] + y[1], x[2]>>)
      [] c.op = "ScaledParameters" -> FAdd(x, y)
      [] OTHER -> x + y

\* Fs with the gradient of the Variable f zeroed
ZeroGrad(c, Fs, f) ==
    [Fs EXCEPT ![f].grad = [r \in Rows(@) |-> [col \in Cols(@) |-> ZeroCell(c)]]]

\* The call c only accumulates into the gradient of f: what the gradient holds
\* after the call is what it held before plus the contribution of the call,
\* which is what the call leaves in a zeroed gradient.
AccumulatesInto(c, before, after, f) ==
    LET contribution == adjoint(c, ZeroGrad(c, before, f))[f].grad
    IN  \A r \in Rows(contribution) : \A col \in Cols(contribution) :
            after[f].grad[r][col]
                = CellSum(c, before[f].grad[r][col], contribution[r][col])

\* C19 as claimed: the adjoint call of every operator only accumulates into
\* the gradient arrays.
C19_EveryAdjointAccumulates ==
    pc = "done" => \A f \in DOMAIN F0 : AccumulatesInto(call, F0, F, f)

\* C19 (amended): no adjoint call changes a data or lin array. The adjoint
\* calls of UpdateVelocity, UpdateStress and Receiver only accumulate into the
\* gradients and that of PointForceSource changes nothing. Cerjan.adjoint
\* multiplies every gradient cell by the taper; ScaledParameters.adjoint
\* replaces vp.grad and vs.grad by multiples of themselves and the valid cells
\* of rho.grad by a multiple of themselves before it adds to rho.grad;
\* FreeSurface.adjoint sets the rows 0 .. pad of the szz gradient and the rows
\* 0 .. pad-1 of the sxz gradient to zero after it has subtracted the halo
\* rows, mirrored, from the rows pad+1 .. 2*pad, and only accumulates into
\* the other gradients.
C19_WhichAdjointsAccumulate ==
    pc = "done" =>
        /\ \A f \in DOMAIN F0 : F[f].data = F0[f].data /\ F[f].lin = F0[f].lin
        /\ call.op \in {"UpdateVelocity", "UpdateStress", "Receiver", "PointForceSource"} =>
            \A f \in DOMAIN F0 : AccumulatesInto(call, F0, F, f)
        /\ call.op = "PointForceSource" => F = F0
        /\ call.op = "Cerjan" =>
            \A i \in DOMAIN F0 : F[i].grad = Tapered(F0[i].grad, call.nab, call.freesurf)
        /\ call.op = "ScaledParameters" =>
            LET k == FMul(call.dtdx, Pow2(-call.sc))
                m == FMul(Pow2(call.sc), call.dtdx)
                vpg == Scaled(k, F0.vp.grad)
                vsg == Scaled(k, F0.vs.grad)
            IN  /\ F.vp.grad = TwiceProduct(F0.vp.data, F0.rho.data, vpg)
                /\ F.vs.grad = TwiceProduct(F0.vs.data, F0.rho.data, vsg)
                /\ F.rho.grad =
                    FPlus(FPlus(MinusOverSquareValid(m, F0.rho.data, F0.rho.grad),
                                FTimes(FTimes(F0.vp.data, F0.vp.data), vpg)),
                          FTimes(FTimes(F0.vs.data, F0.vs.data), vsg))
        /\ call.op = "FreeSurface" =>
            /\ \A f \in DOMAIN F0 \ {"szz", "sxz"} : AccumulatesInto(call, F0, F, f)
            /\ \A r \in Rows(F.szz.grad) : \A c \in Cols(F.szz.grad) :
                /\ F.szz.grad[r][c] =
                    (IF r <= Pad THEN 0
                     ELSE IF r <= 2 * Pad THEN F0.szz.grad[r][c] - F0.szz.grad[2 * Pad - r][c]
                     ELSE F0.szz.grad[r][c])
                /\ F.sxz.grad[r][c] =
                    (IF r < Pad THEN 0
                     ELSE IF r > Pad /\ r <= 2 * Pad
                     THEN F0.sxz.grad[r][c] - F0.sxz.grad[2 * Pad - r][c]
                     ELSE F0.sxz.grad[r][c])

C19_Witness ==
    /\ pc = "done" /\ call.op = "UpdateStress"
    /\ \E r \in Rows(F.csM.grad) : \E c \in Cols(F.csM.grad) :
        /\ F0.csM.grad[r][c] # 0
        /\ F.csM.grad[r][c] # F0.csM.grad[r][c]
    /\ F.vx.grad # F0.vx.grad

\* ------------------------------------------ what a forward call leaves alone
\* updated_states of UpdateVelocity and of UpdateStress
UpdatedStates(op) ==
    CASE op = "UpdateVelocity" -> {"vx", "vz"}
      [] op = "UpdateStress" -> {"sxx", "szz", "sxz"}

\* between before and after only valid cells of the data of the Variables
\* upd differ
OnlyValidDataOf(upd, before, after) ==
    \A f \in FieldNames :
        /\ after[f].lin = before[f].lin
        /\ after[f].grad = before[f].grad
        /\ f \notin upd => after[f].data = before[f].data
        /\ \A r \in Rows(after[f].data) : \A c \in Cols(after[f].data) :
            ~IsValid(after[f].data, r, c) => after[f].data[r][c] = before[f].data[r][c]

\* C20: UpdateVelocity.forward changes only valid cells of vx.data and
\* vz.data, and UpdateStress.forward only valid cells of sxx.data, szz.data
\* and sxz.data; every other data array, every halo cell and every lin and
\* grad array is left as it was, with backpropagate False and True.
C20_ForwardFrame ==
    /\ (pc = "fwd" /\ call.op \in {"UpdateVelocity", "UpdateStress"}) =>
            OnlyValidDataOf(UpdatedStates(call.op), F0, F)
    /\ (pc = "restored" /\ call.op \in {"UpdateVelocity", "UpdateStress"}) =>
            OnlyValidDataOf(UpdatedStates(call.op), F1, F)

C20_Witness ==
    /\ pc = "restored" /\ call.op = "UpdateStress"
    /\ F1.sxx.data # F0.sxx.data /\ F1.szz.data # F0.szz.data /\ F1.sxz.data # F0.sxz.data
    /\ F.szz.data # F1.szz.data
    /\ \E r \in Rows(F0.szz.data) : \E c \in Cols(F0.szz.data) :
        ~IsValid(F0.szz.data, r, c) /\ F0.szz.data[r][c] # 0
    /\ \E f \in FieldNames : F0[f].lin # Zeros(GR, GC) /\ F0[f].grad # Zeros(GR, GC)

\* ------------------------------- the stencils the operators' adjoints use
\* the interior of a padded array, interior-shaped
Interior(var) ==
    [i \in 0 .. NRows(var) - 2 * Pad - 1 |-> [j \in 0 .. NCols(var) - 2 * Pad - 1 |->
        var[i + Pad][j + Pad]]]

\* C23: for every padded b whose halo cells are zero, on the interior
\* Dpx_adj(b) = -Dmx(b), Dmx_adj(b) = -Dpx(b), Dpz_adj(b) = -Dmz(b) and
\* Dmz_adj(b) = -Dpz(b).
C23_AdjointIsNegatedOpposite ==
    (pc = "done" /\ HaloZero(sb)) =>
        Interior(sadj) = (CASE sop = "Dpx" -> Neg(Dmx(sb))
                            [] sop = "Dmx" -> Neg(Dpx(sb))
                            [] sop = "Dpz" -> Neg(Dmz(sb))
                            [] sop = "Dmz" -> Neg(Dpz(sb)))

C23_Witness ==
    /\ pc = "done" /\ sop = "Dmz" /\ HaloZero(sb)
    /\ sb = DenseValid(GR, GC)
    /\ \A i \in Rows(Interior(sadj)) : \E j \in Cols(Interior(sadj)) : Interior(sadj)[i][j] # 0
    /\ \E r \in Rows(sadj) : \E c \in Cols(sadj) : ~IsValid(sadj, r, c) /\ sadj[r][c] # 0

\* ------------------------------------- the surface kernel and its dot test
\* (tests/dot_prod_surface.py; FDOH is Pad, hc is <<HC1, -HC2>>)
KernelNames == {"vx", "vz", "sxx", "szz", "sxz"}

\* h of surface for the interior column ii
SurfaceKernelH(vx, vz, M, mu, ii) ==
    LET c == ii + Pad
        vxx == HC1 * (vx[Pad][c] - vx[Pad][c - 1]) - HC2 * (vx[Pad][c + 1] - vx[Pad][c - 2])
        vzz == HC1 * (vz[Pad][c] - vz[Pad - 1][c]) - HC2 * (vz[Pad + 1][c] - vz[Pad - 2][c])
        f == mu[0][ii] * 2
        g == M[0][ii]
    IN  -Quot((g - f) * (g - f) * vxx, g) - ((g - f) * vzz)

\* surface
surface(s, M, mu) ==
    LET inCols(a, c) == c >= Pad /\ c <= NCols(a) - Pad - 1
    IN  [s EXCEPT
            !.szz = [r \in Rows(@) |-> [c \in Cols(@) |->
                        IF ~inCols(@, c) THEN @[r][c]
                        ELSE IF r = Pad THEN 0
                        ELSE IF r < Pad THEN -s.szz[2 * Pad - r][c]
                        ELSE @[r][c]]],
            !.sxz = [r \in Rows(@) |-> [c \in Cols(@) |->
                        IF inCols(@, c) /\ r < Pad THEN -s.sxz[2 * Pad - r - 1][c]
                        ELSE @[r][c]]],
            !.sxx = [r \in Rows(@) |-> [c \in Cols(@) |->
                        IF inCols(@, c) /\ r = Pad
                        THEN @[r][c] + SurfaceKernelH(s.vx, s.vz, M, mu, c - Pad)
                        ELSE @[r][c]]]]

surface_adj_bug(s, M, mu) ==
    LET n == NCols(s.vx) - 2 * Pad
        inCols(c) == c >= Pad /\ c <= NCols(s.vx) - Pad - 1
        hx(ii) == -Quot((M[0][ii] - mu[0][ii] * 2) * (M[0][ii] - mu[0][ii] * 2), M[0][ii])
        hz(ii) == -(M[0][ii] - mu[0][ii] * 2)
        X(ii) == IF ii >= 0 /\ ii < n THEN hx(ii) * s.sxx[Pad][ii + Pad] ELSE 0
        Z(ii) == hz(ii) * s.sxx[Pad][ii + Pad]
    IN  [s EXCEPT
            !.szz = [r \in Rows(@) |-> [c \in Cols(@) |->
                        IF inCols(c) /\ r = Pad THEN 0 ELSE @[r][c]]],
            !.vx = [r \in Rows(@) |-> [c \in Cols(@) |->
                        IF inCols(c) /\ r = Pad
                        THEN @[r][c] + HC1 * X(c - Pad) - HC2 * X(c - Pad - 1)
                                - HC1 * X(c - Pad + 1) - HC2 * X(c - Pad + 2)
                        ELSE @[r][c]]],
            !.vz = [r \in Rows(@) |-> [c \in Cols(@) |->
                        IF inCols(c) /\ r = Pad THEN @[r][c] + HC1 * Z(c - Pad)
                        ELSE IF inCols(c) /\ r = Pad + 1 THEN @[r][c] - HC2 * Z(c - Pad)
                        ELSE @[r][c]]]]

\* surface_adj. X(ii) is hx * sxx[FDOH, ii + FDOH] of the pass ii of the
\* loop; the cell vx[FDOH, c] receives hc[0] * X from the pass c - FDOH,
\* hc[1] * X from the pass before it, - hc[0] * X from the pass after it and
\* - hc[1] * X from the second pass after it, the passes that exist
surface_adj(s, M, mu) ==
    LET n == NCols(s.vx) - 2 * Pad
        inCols(c) == c >= Pad /\ c <= NCols(s.vx) - Pad - 1
        hx(ii) == -Quot((M[0][ii] - mu[0][ii] * 2) * (M[0][ii] - mu[0][ii] * 2), M[0][ii])
        hz(ii) == -(M[0][ii] - mu[0][ii] * 2)
        X(ii) == IF ii >= 0 /\ ii < n THEN hx(ii) * s.sxx[Pad][ii + Pad] ELSE 0
        Z(ii) == hz(ii) * s.sxx[Pad][ii + Pad]
    IN  [s EXCEPT
            !.szz = [r \in Rows(@) |-> [c \in Cols(@) |->
                        IF inCols(c) /\ r = Pad THEN 0 ELSE @[r][c]]],
            !.vx = [r \in Rows(@) |-> [c \in Cols(@) |->
                        IF inCols(c) /\ r = Pad
                        THEN @[r][c] + HC1 * X(c - Pad) - HC2 * X(c - Pad - 1)
                                - HC1 * X(c - Pad + 1) + HC2 * X(c - Pad + 2)
                        ELSE @[r][c]]],
            !.vz = [r \in Rows(@) |-> [c \in Cols(@) |->
                        IF inCols(c) /\ r = Pad THEN @[r][c] + HC1 * Z(c - Pad)
                        ELSE IF inCols(c) /\ r = Pad + 1 THEN @[r][c] - HC2 * Z(c - Pad)
                        ELSE @[r][c]]]]

\* the kernels of a list applied in turn
RECURSIVE ApplyKernels(_, _, _, _)
ApplyKernels(funs, s, M, mu) ==
    IF funs = <<>> THEN s
    ELSE ApplyKernels(Tail(funs),
                      CASE Head(funs) = "surface" -> surface(s, M, mu)
                        [] Head(funs) = "surface_adj" -> surface_adj(s, M, mu),
                      M, mu)

\* np.sum(x.vx * y.vx) + ... + np.sum(x.sxz * y.sxz)
KernelDot(x, y) ==
    Dot(x.vx, y.vx) + Dot(x.vz, y.vz) + Dot(x.sxx, y.sxx) + Dot(x.szz, y.szz)
        + Dot(x.sxz, y.sxz)

\* dot_test, for the fields and the seeds it draws. Where g = M[0, ii] is
\* zero the divisions by g of surface and of surface_adj give inf or nan, a
\* RuntimeWarning and no exception, and so does every sum they enter:
\* the value returned is then not a finite number.
dot_test(forwards, adjoints, fields, seeds, M, mu) ==
    IF \E ii \in DOMAIN M[0] : M[0][ii] = 0
    THEN [finite |-> FALSE, value |-> 0, prod1 |-> 0, F |-> fields, F_a |-> seeds]
    ELSE LET Fs == ApplyKernels(forwards, fields, M, mu)
             Fa == ApplyKernels(adjoints, seeds, M, mu)
             prod1 == KernelDot(seeds, Fs)
             prod2 == KernelDot(fields, Fa)
         IN  [finite |-> TRUE, value |-> prod2 - prod1, prod1 |-> prod1, F |-> Fs, F_a |-> Fa]

\* the shape of the fields of the test: an interior wide enough for every
\* term of the loops of the kernels to fall inside it
KR == NZ + 2 * Pad
KC == NX + 1 + 2 * Pad

\* np.zeros(...) with np.random.rand in the interior, for the five fields:
\* dense fields, and fields that are zero but for one interior cell
KernelFields ==
    {[f \in KernelNames |-> ValidOnly(Pattern(KR, KC, FieldIndex[f] + seed))] :
        seed \in 0 .. MaxAmp}
    \cup {[f \in KernelNames |-> IF f = xf THEN Impulse(KR, KC, p, 1) ELSE Zeros(KR, KC)] :
            xf \in KernelNames,
            p \in {q \in Cells(KR, KC) : IsValid(Zeros(KR, KC), q[1], q[2])}}

\* M and mu: whole numbers that divide what the kernels divide by them, and
\* an M with a zero in its first row
KernelM ==
    {[i \in 0 .. NZ - 1 |-> [j \in 0 .. NX |-> 1]],
     [i \in 0 .. NZ - 1 |-> [j \in 0 .. NX |-> 1 + ((i + j) % 2)]],
     [i \in 0 .. NZ - 1 |-> [j \in 0 .. NX |-> IF j = 1 THEN 0 ELSE 2]]}

KernelMu ==
    {[i \in 0 .. NZ - 1 |-> [j \in 0 .. NX |-> 1]],
     [i \in 0 .. NZ - 1 |-> [j \in 0 .. NX |-> (i + 2 * j) % 3]]}

\* __main__ before the first dot test: F holds the fields and the seeds
\* dot_test will draw, F1 the globals M and mu
InitKernel ==
    /\ pc = "main"
    /\ \E x \in KernelFields, a \in KernelFields : F = [fields |-> x, seeds |-> a]
    /\ \E M \in KernelM, mu \in KernelMu : F1 = [M |-> M, mu |-> mu]
    /\ F0 = F
    /\ call = [op |-> "none"]
    /\ EmptyStencil /\ EmptySurf /\ EmptyScale /\ EmptyTape /\ EmptyTaper

\* print(dot_test([surface], [surface_adj]))
DotTestSurface ==
    /\ pc = "main"
    /\ call' = [op |-> "dot_test",
                ret |-> dot_test(<<"surface">>, <<"surface_adj">>,
                                 F.fields, F.seeds, F1.M, F1.mu)]
    /\ pc' = "printed"
    /\ UNCHANGED <<F, F0, F1, notOpsVars>>

NextKernel == DotTestSurface

SpecKernel == InitKernel /\ [][NextKernel]_vars

\* C22 as claimed: for any fields and seeds that are zero outside the
\* interior and any M and mu, dot_test([surface], [surface_adj]) returns 0.
C22_SurfaceDotTestIsZero ==
    pc = "printed" => (call.ret.finite /\ call.ret.value = 0)

\* C22 (amended): for any fields and seeds that are zero outside the interior,
\* any mu and any M with no zero in its first row, the two inner products of
\* dot_test([surface], [surface_adj]) are equal; with a zero in the first row
\* of M the value returned is not a finite number.
C22_SurfaceDotTestNonzeroM ==
    pc = "printed" =>
        IF \A ii \in DOMAIN F1.M[0] : F1.M[0][ii] # 0
        THEN call.ret.finite /\ call.ret.value = 0
             /\ KernelDot(F.fields, call.ret.F_a) = KernelDot(F.seeds, call.ret.F)
        ELSE ~call.ret.finite

C22_Witness ==
    /\ pc = "printed" /\ call.ret.finite
    /\ call.ret.prod1 # 0
    /\ call.ret.F.sxx # F.fields.sxx
    /\ call.ret.F_a.vx # F.seeds.vx /\ call.ret.F_a.vz # F.seeds.vz
    /\ call.ret.F_a.szz # F.seeds.szz
    /\ KernelDot(F.seeds, F.fields) # call.ret.prod1

\* ------------------------------------ FreeSurface: linear, adjoint, the stack
FreeSurface_linear_bug(dstates, states, fstates) ==
    LET r == FreeSurface_call([vx |-> dstates.vx, vz |-> dstates.vz, sxx |-> dstates.sxx,
                               szz |-> dstates.szz, sxz |-> dstates.sxz,
                               csu |-> states.csu, csM |-> states.csM, cv |-> states.cv],
                              fstates)
        vxx == Dmx(states.vx)[0]
        vzz == Dmz(states.vz)[0]
        dh == [j \in DOMAIN vxx |->
                LET df == dstates.csu[Pad][j + Pad] * 2
                    dg == dstates.csM[Pad][j + Pad]
                    f == states.csu[Pad][j + Pad] * 2
                    g == states.csM[Pad][j + Pad]
                IN  (Quot(2 * (g - f) * vxx[j], g) + vzz[j]) * df
                    + (Quot(-2 * (g - f) * vxx[j], g) + Quot((g - f) * (g - f) * vxx[j], g * g)
                        - vzz[j]) * dg]
    IN  [dstates |-> [dstates EXCEPT !.szz = r.states.szz, !.sxz = r.states.sxz,
                                     !.sxx = AddSurfaceRow(r.states.sxx, dh)],
         fstates |-> r.fstates]

\* FreeSurface.linear: forward (not __call__) on the perturbation arrays, in
\* place, then dh added to the surface row of dstates["sxx"]; fstates is
\* self._forward_states
FreeSurface_linear(dstates, states, fstates) ==
    LET d == FreeSurface_forward([vx |-> dstates.vx, vz |-> dstates.vz, sxx |-> dstates.sxx,
                                  szz |-> dstates.szz, sxz |-> dstates.sxz,
                                  csu |-> states.csu, csM |-> states.csM, cv |-> states.cv])
        vxx == Dmx(states.vx)[0]
        vzz == Dmz(states.vz)[0]
        dh == [j \in DOMAIN vxx |->
                LET df == dstates.csu[Pad][j + Pad] * 2
                    dg == dstates.csM[Pad][j + Pad]
                    f == states.csu[Pad][j + Pad] * 2
                    g == states.csM[Pad][j + Pad]
                IN  (Quot(2 * (g - f) * vxx[j], g) + vzz[j]) * df
                    + (Quot(-2 * (g - f) * vxx[j], g) + Quot((g - f) * (g - f) * vxx[j], g * g)
                        - vzz[j]) * dg]
    IN  [dstates |-> [dstates EXCEPT !.szz = d.szz, !.sxz = d.sxz,
                                     !.sxx = AddSurfaceRow(d.sxx, dh)],
         fstates |-> fstates]

\* the arrays of one kind of every Variable, and the Variables with them replaced
ArraysOf(Fs, kind) == [f \in DOMAIN Fs |-> Fs[f][kind]]
WithArrays(Fs, kind, arrs) == [f \in DOMAIN Fs |-> [Fs[f] EXCEPT ![kind] = arrs[f]]]

\* the states dictionary of the propagator at the free surface: csM divides
\* what the surface divides by it on the surface row, and is zero in one cell
\* below it when zeroBelow; one of lin and grad is dense in every field and
\* the other a single nonzero cell of the field xf
SurfaceFields(seed, zeroBelow, impulseIn, xf, p, v) ==
    [f \in FieldNames |->
        LET one == IF f = xf THEN Impulse(GR, GC, p, v) ELSE Zeros(GR, GC)
            data == IF f = "cv" THEN Pattern(GR, GC, seed)
                    ELSE IF f = "csM" /\ zeroBelow
                    THEN [SurfaceStates(seed).csM EXCEPT ![Pad + 1][Pad] = 0]
                    ELSE SurfaceStates(seed)[f]
        IN  Variable(data,
                     IF impulseIn = "lin" THEN one ELSE Pattern(GR, GC, FieldIndex[f] + 3),
                     IF impulseIn = "grad" THEN one ELSE Pattern(GR, GC, FieldIndex[f] + 6))]

\* linear and adjoint at one primal state
InitTangent ==
    /\ pc = "tangent"
    /\ F \in {SurfaceFields(seed, z, w, xf, p, 1) :
                seed \in 0 .. 1, z \in BOOLEAN, w \in {"lin", "grad"},
                xf \in FieldNames \ {"cv"}, p \in Cells(GR, GC)}
    /\ F0 = F
    /\ F1 = <<>>
    /\ call = [op |-> "FreeSurface"]
    /\ stack = <<>> /\ status = "ok" /\ trace = <<>>
    /\ S = <<>> /\ snaps = <<>>
    /\ EmptyStencil /\ EmptyScale /\ EmptyTape /\ EmptyTaper

\* the operator in all its modes, from one state
InitModes ==
    /\ pc = "modes"
    /\ F \in {SurfaceFields(seed, FALSE, "grad", "sxx", <<Pad, Pad>>, 1) : seed \in 0 .. MaxAmp}
    /\ F0 = F
    /\ F1 = <<>>
    /\ call = [op |-> "FreeSurface"]
    /\ stack = <<>> /\ status = "ok" /\ trace = <<>>
    /\ S = <<>> /\ snaps = <<>>
    /\ EmptyStencil /\ EmptyScale /\ EmptyTape /\ EmptyTaper

\* may the driver make the call name now
MayCall(name) ==
    /\ status = "ok"
    /\ \/ pc = "modes" /\ Len(trace) < MaxCalls
       \/ pc = "tangent" /\ name \in {"linear", "adjoint"}
            /\ \A k \in 1 .. Len(trace) : trace[k] # name

FreeSurfaceApply ==
    /\ pc = "modes" /\ MayCall("call")
    /\ LET r == FreeSurface_call(ArraysOf(F, "data"), stack)
       IN  F' = WithArrays(F, "data", r.states) /\ stack' = r.fstates
    /\ trace' = Append(trace, "call")
    /\ UNCHANGED <<pc, F0, F1, call, status, S, snaps,
                   stencilVars, scaleVars, tapeVars, taperVars>>

FreeSurfaceDirectForward ==
    /\ pc = "modes" /\ MayCall("forward")
    /\ F' = WithArrays(F, "data", FreeSurface_forward(ArraysOf(F, "data")))
    /\ trace' = Append(trace, "forward")
    /\ UNCHANGED <<pc, F0, F1, call, stack, status, S, snaps,
                   stencilVars, scaleVars, tapeVars, taperVars>>

FreeSurfaceLinear ==
    /\ MayCall("linear")
    /\ LET r == FreeSurface_linear(ArraysOf(F, "lin"), ArraysOf(F, "data"), stack)
       IN  F' = WithArrays(F, "lin", r.dstates) /\ stack' = r.fstates
    /\ trace' = Append(trace, "linear")
    /\ UNCHANGED <<pc, F0, F1, call, status, S, snaps,
                   stencilVars, scaleVars, tapeVars, taperVars>>

FreeSurfaceAdjoint ==
    /\ MayCall("adjoint")
    /\ F' = WithArrays(F, "grad",
                       FreeSurface_adjoint(ArraysOf(F, "grad"), ArraysOf(F, "data")))
    /\ trace' = Append(trace, "adjoint")
    /\ UNCHANGED <<pc, F0, F1, call, stack, status, S, snaps,
                   stencilVars, scaleVars, tapeVars, taperVars>>

FreeSurfaceUnwind ==
    /\ pc = "modes" /\ MayCall("backward")
    /\ LET r == FreeSurface_backward(ArraysOf(F, "data"), stack)
       IN  /\ F' = WithArrays(F, "data", r.states) /\ stack' = r.fstates
           /\ status' = IF r.raised = "none" THEN "ok" ELSE r.raised
    /\ trace' = Append(trace, "backward")
    /\ UNCHANGED <<pc, F0, F1, call, S, snaps,
                   stencilVars, scaleVars, tapeVars, taperVars>>

NextTangent == FreeSurfaceLinear \/ FreeSurfaceAdjoint

SpecTangent == InitTangent /\ [][NextTangent]_vars

NextModes ==
    \/ FreeSurfaceApply \/ FreeSurfaceDirectForward
    \/ FreeSurfaceLinear \/ FreeSurfaceAdjoint \/ FreeSurfaceUnwind

SpecModes == InitModes /\ [][NextModes]_vars

AllFields == <<"cv", "csM", "csu", "vx", "vz", "sxx", "szz", "sxz">>

\* C21: at a primal state whose csM is nonzero on the surface row, for any
\* perturbations and seed gradients (every cell), <lin after linear, grad
\* before> = <lin before, grad after adjoint>; and the adjoint adds to the
\* csM and csu gradients of the surface row the seed sxx gradient times
\* dh/dcsM = -((g^2 - f^2) * vxx / g^2) - vzz and dh/dcsu = 2 * (2 * (g - f) *
\* vxx / g + vzz), and changes these gradients nowhere else.
C21_SurfaceAdjointIsTranspose ==
    /\ (pc = "tangent" /\ Len(trace) = 2) =>
        DotFields(F, "lin", F0, "grad", AllFields) = DotFields(F0, "lin", F, "grad", AllFields)
    /\ (pc = "tangent" /\ Len(trace) >= 1 /\ \E k \in 1 .. Len(trace) : trace[k] = "adjoint") =>
        LET vxx == Dmx(F0.vx.data)[0]
            vzz == Dmz(F0.vz.data)[0]
        IN  \A r \in Rows(F.csM.grad) : \A c \in Cols(F.csM.grad) :
                LET f == F0.csu.data[Pad][c] * 2
                    g == F0.csM.data[Pad][c]
                    a == F0.sxx.grad[Pad][c]
                IN  IF r = Pad /\ IsValid(F.csM.grad, r, c)
                    THEN /\ g * g * (F.csM.grad[r][c] - F0.csM.grad[r][c])
                              = (-(g * g - f * f) * vxx[c - Pad] - g * g * vzz[c - Pad]) * a
                         /\ g * (F.csu.grad[r][c] - F0.csu.grad[r][c])
                              = 2 * (2 * (g - f) * vxx[c - Pad] + g * vzz[c - Pad]) * a
                    ELSE /\ F.csM.grad[r][c] = F0.csM.grad[r][c]
                         /\ F.csu.grad[r][c] = F0.csu.grad[r][c]

C21_Witness ==
    /\ pc = "tangent" /\ Len(trace) = 2
    /\ DotFields(F, "lin", F0, "grad", AllFields) # DotFields(F0, "lin", F0, "grad", AllFields)
    /\ F0.csM.lin[Pad][Pad] # 0
    /\ F0.csM.data[Pad + 1][Pad] = 0
    /\ ~HaloZero(F0.vx.lin)
    /\ F.csM.grad # F0.csM.grad /\ F.csu.grad # F0.csu.grad /\ F.vx.grad # F0.vx.grad
    /\ F.sxx.lin # F0.sxx.lin

\* C24: self._forward_states is changed only by __call__, which appends one
\* snapshot, and by backward, which removes the last one (or raises on an
\* empty list and leaves it empty); forward, linear and adjoint leave it as
\* it was.
C24_StackChangedOnlyByCallAndBackward ==
    [][LET name == trace'[Len(trace')]
       IN  /\ name \in {"forward", "linear", "adjoint"} => stack' = stack
           /\ name = "call" =>
                /\ Len(stack') = Len(stack) + 1
                /\ SubSeq(stack', 1, Len(stack)) = stack
           /\ name = "backward" =>
                IF stack = <<>> THEN stack' = <<>> /\ status' = "IndexError"
                ELSE stack' = SubSeq(stack, 1, Len(stack) - 1)]_vars

C24_Witness ==
    /\ pc = "modes"
    /\ trace = <<"call", "linear", "adjoint", "backward">>
    /\ stack = <<>> /\ status = "ok"
    /\ F.sxx.lin # F0.sxx.lin /\ F.vx.grad # F0.vx.grad
    /\ F.sxx.data = F0.sxx.data

====
